---- MODULE Spec2Model ----
(***************************************************************************)
(* Model of the page text engine of mimsy-cms                              *)
(* (src/packages/cms/src/page-scanner.ts): extractTextFields and           *)
(* applyTextEdits over the UTF-8 bytes of an .astro source.                *)
(*                                                                         *)
(* A JavaScript string is a sequence of UTF-16 code units (naturals below  *)
(* 65536); a Uint8Array is a sequence of bytes (naturals below 256).       *)
(* Offsets are 0-based as in the source; TLA+ sequences are 1-based, so    *)
(* byte offset o is element o+1.  `null` and -1 results are -1.            *)
(***************************************************************************)
EXTENDS Integers, Sequences, FiniteSets, TLC

\* ------------------------------------------------------------------------
\* Generic helpers on sequences.  Nothing recurses over the length of a
\* text: folds split the range in halves, searches look at stretches of
\* doubling width.
\* ------------------------------------------------------------------------

\* `const v = ...; F(v)`: names a value once for the expression F
With(v, F(_)) == F(v)

Min(S) == CHOOSE x \in S : \A y \in S : x <= y

Max(S) == CHOOSE x \in S : \A y \in S : x >= y

\* Math.min(a, b)
Least(a, b) == IF a < b THEN a ELSE b

RECURSIVE FirstFrom(_, _, _, _)
\* the least i in from..(limit - 1) with P(i), or limit
FirstFrom(P(_), from, limit, width) ==
  IF from >= limit THEN limit
  ELSE With({i \in from..(Least(from + width, limit) - 1) : P(i)},
            LAMBDA hits : IF hits # {} THEN Min(hits)
                          ELSE FirstFrom(P, from + width, limit, 2 * width))

RECURSIVE ConcatRange(_, _, _)
\* f[lo] \o f[lo+1] \o ... \o f[hi] for a sequence f of sequences
ConcatRange(f, lo, hi) ==
  IF lo > hi THEN <<>>
  ELSE IF lo = hi THEN f[lo]
  ELSE ConcatRange(f, lo, (lo + hi) \div 2)
         \o ConcatRange(f, ((lo + hi) \div 2) + 1, hi)

Flatten(f) == ConcatRange(f, 1, Len(f))

\* JS s.slice(a, b) for 0 <= a, b (0-based, end exclusive)
slice(s, a, b) == SubSeq(s, Least(a, Len(s)) + 1, Least(b, Len(s)))

\* s.slice(a): to the end
sliceFrom(s, a) == SubSeq(s, Least(a, Len(s)) + 1, Len(s))

\* is pat found in s at 0-based index i
MatchAt(s, pat, i) ==
  /\ i + Len(pat) <= Len(s)
  /\ \A k \in 1..Len(pat) : s[i + k] = pat[k]

\* the first 0-based index i >= from where pat occurs in s, or -1
indexOfFrom(s, pat, from) ==
  With(FirstFrom(LAMBDA i : MatchAt(s, pat, i), from, Len(s) - Len(pat) + 1, 8),
       LAMBDA i : IF i > Len(s) - Len(pat) THEN -1 ELSE i)

\* JS s.indexOf(pat): the first 0-based index of pat in s, or -1
indexOf(s, pat) == indexOfFrom(s, pat, 0)

\* the first 0-based index i >= from with s[i] in the set cs, or Len(s)
FindFirst(s, from, cs) == FirstFrom(LAMBDA i : s[i + 1] \in cs, from, Len(s), 8)

\* ------------------------------------------------------------------------
\* Text literals: Str("...") is the code unit sequence of an ASCII literal.
\* ------------------------------------------------------------------------

\* the printable ASCII characters from the space (32) to the tilde (126); the
\* grave accent (96) has no literal and is held by a space
Printable ==
  " !\"#$%&'" \o "(" \o ")" \o "*" \o "+,-./0123456789:;<=>?@"
    \o "ABCDEFGHIJKLMNOPQRSTUVWXYZ[\\]^_ abcdefghijklmnopqrstuvwxyz{|}~"

AsciiCode(c) ==
  IF c = "\n" THEN 10
  ELSE 31 + Min({i \in 1..Len(Printable) : SubSeq(Printable, i, i) = c})

Str(lit) == [i \in 1..Len(lit) |-> AsciiCode(SubSeq(lit, i, i))]

Repeat(lit, n) == [i \in 1..n |-> AsciiCode(lit)]

\* U+00E9 (2 bytes in UTF-8), U+20AC (3 bytes), U+1F389 (4 bytes, a
\* surrogate pair in UTF-16)
Eacute == <<233>>
Euro == <<8364>>
Party == <<55356, 57225>>

\* U+00A0, the no-break space
Nbsp == <<160>>

\* ------------------------------------------------------------------------
\* TextEncoder / TextDecoder (page-scanner.ts lines 8-9)
\* ------------------------------------------------------------------------

IsHighSurrogate(u) == u >= 55296 /\ u <= 56319
IsLowSurrogate(u) == u >= 56320 /\ u <= 57343

Utf8OfCodePoint(cp) ==
  IF cp < 128 THEN <<cp>>
  ELSE IF cp < 2048 THEN <<192 + (cp \div 64), 128 + (cp % 64)>>
  ELSE IF cp < 65536
    THEN <<224 + (cp \div 4096), 128 + ((cp \div 64) % 64), 128 + (cp % 64)>>
  ELSE <<240 + (cp \div 262144), 128 + ((cp \div 4096) % 64),
         128 + ((cp \div 64) % 64), 128 + (cp % 64)>>

\* the bytes that code unit i of s contributes to encode(s): a surrogate
\* pair is encoded at its high half, a lone surrogate becomes U+FFFD
UnitBytes(s, i) ==
  IF s[i] < 128 THEN <<s[i]>>
  ELSE IF IsHighSurrogate(s[i])
    THEN IF i < Len(s) /\ IsLowSurrogate(s[i + 1])
           THEN Utf8OfCodePoint(65536 + (s[i] - 55296) * 1024 + (s[i + 1] - 56320))
           ELSE <<239, 191, 189>>
  ELSE IF IsLowSurrogate(s[i])
    THEN IF i > 1 /\ IsHighSurrogate(s[i - 1]) THEN <<>> ELSE <<239, 191, 189>>
  ELSE Utf8OfCodePoint(s[i])

\* TextEncoder.encode: JS string -> UTF-8 bytes
encode(s) == Flatten([i \in 1..Len(s) |-> UnitBytes(s, i)])

IsCont(b) == b >= 128 /\ b <= 191

\* number of continuation bytes a lead byte asks for (0: not a lead byte)
Need(b) ==
  IF b >= 194 /\ b <= 223 THEN 1
  ELSE IF b >= 224 /\ b <= 239 THEN 2
  ELSE IF b >= 240 /\ b <= 244 THEN 3
  ELSE 0

\* is c acceptable as the k-th byte after lead byte b (WHATWG utf-8 decoder:
\* the second byte of E0, ED, F0, F4 has a narrower range)
ContOk(b, k, c) ==
  IF k > 1 THEN IsCont(c)
  ELSE IF b = 224 THEN c >= 160 /\ c <= 191
  ELSE IF b = 237 THEN c >= 128 /\ c <= 159
  ELSE IF b = 240 THEN c >= 144 /\ c <= 191
  ELSE IF b = 244 THEN c >= 128 /\ c <= 143
  ELSE IsCont(c)

\* how many of the bytes after the lead byte at index i continue its sequence
Followers(b, i) ==
  Cardinality({k \in 1..Need(b[i]) :
                 \A j \in 1..k : i + j <= Len(b) /\ ContOk(b[i], j, b[i + j])})

\* index i is consumed by the sequence that a lead byte before it started
Covered(b, i) ==
  /\ IsCont(b[i])
  /\ \E k \in 1..3 : i - k >= 1 /\ Need(b[i - k]) >= k /\ Followers(b, i - k) >= k

\* the code point of the complete sequence of n + 1 bytes at index i
CodePointAt(b, i, n) ==
  IF n = 1 THEN (b[i] - 192) * 64 + (b[i + 1] - 128)
  ELSE IF n = 2
    THEN (b[i] - 224) * 4096 + (b[i + 1] - 128) * 64 + (b[i + 2] - 128)
  ELSE (b[i] - 240) * 262144 + (b[i + 1] - 128) * 4096
         + (b[i + 2] - 128) * 64 + (b[i + 3] - 128)

\* the code units of a code point
UnitsOfCodePoint(cp) ==
  IF cp < 65536 THEN <<cp>>
  ELSE <<55296 + ((cp - 65536) \div 1024), 56320 + ((cp - 65536) % 1024)>>

\* the code units the decoder emits for the sequence starting at index i
TokenUnits(b, i) ==
  IF b[i] < 128 THEN <<b[i]>>
  ELSE IF Need(b[i]) = 0 \/ Followers(b, i) < Need(b[i]) THEN <<65533>>
  ELSE UnitsOfCodePoint(CodePointAt(b, i, Need(b[i])))

\* TextDecoder.decode (utf-8, not fatal): every maximal invalid part becomes
\* one U+FFFD.  Sources with a byte order mark are outside the inputs.
decode(b) ==
  With(SelectSeq([i \in 1..Len(b) |-> i], LAMBDA i : ~Covered(b, i)),
       LAMBDA starts : Flatten([k \in 1..Len(starts) |-> TokenUnits(b, starts[k])]))

\* JS whitespace (the \s class and String.prototype.trim)
IsSpace(u) ==
  u \in {9, 10, 11, 12, 13, 32, 160, 5760, 8232, 8233, 8239, 8287, 12288, 65279}
    \/ (u >= 8192 /\ u <= 8202)

\* /^\s*$/.test(s)
IsBlank(s) == \A i \in 1..Len(s) : IsSpace(s[i])

\* String.prototype.trim
trim(s) ==
  With({i \in 1..Len(s) : ~IsSpace(s[i])},
       LAMBDA keep : IF keep = {} THEN <<>> ELSE SubSeq(s, Min(keep), Max(keep)))

\* ------------------------------------------------------------------------
\* parse(source, { position: true }) of @astrojs/compiler (page-scanner.ts
\* line 115), for the subset of the .astro syntax the inputs use: a leading
\* frontmatter fence, elements and components with quoted, empty and
\* expression attributes, self-closing and void tags, raw-text script and
\* style, `{...}` expressions (braces nest, quotes protect braces), comments
\* and text.  Every node records the byte offset of its first byte (start)
\* and of the byte after its last (end); elements and components also the
\* byte offset after the `>` of their opening tag (openEnd); an attribute
\* records the byte offset of its name (start).  Names and values are the
\* decoded source text, as the compiler reports them.
\* ------------------------------------------------------------------------

ByteLt == AsciiCode("<")
ByteGt == AsciiCode(">")
ByteSlash == AsciiCode("/")
ByteEq == AsciiCode("=")
ByteDq == AsciiCode("\"")
ByteSq == AsciiCode("'")
ByteLbrace == AsciiCode("{")
ByteRbrace == AsciiCode("}")
ByteSpaces == {AsciiCode(" "), AsciiCode("\n"), 9, 13}
NameStop == ByteSpaces \cup {ByteEq, ByteGt, ByteSlash}
ValueStop == ByteSpaces \cup {ByteGt}
ExprMarks == {ByteLbrace, ByteRbrace, ByteDq, ByteSq}
CommentOpen == Str("<!--")
CommentClose == Str("-->")
Fence == Str("---")
CloseOpen == Str("</")

\* the byte at offset p, or -1 past the end
At(b, p) == IF p >= 0 /\ p < Len(b) THEN b[p + 1] ELSE -1

IsLetter(c) == (c >= 65 /\ c <= 90) \/ (c >= 97 /\ c <= 122)
IsUpper(c) == c >= 65 /\ c <= 90

\* the first offset >= p that holds no white space, or Len(b)
SkipSpace(b, p) == FirstFrom(LAMBDA i : b[i + 1] \notin ByteSpaces, p, Len(b), 8)

VOID_ELEMENTS ==
  {Str(n) : n \in {"img", "br", "hr", "input", "meta", "link"}}

RAW_TEXT_ELEMENTS == {Str(n) : n \in {"script", "style"}}

MkNode(type, name, value, attributes, children, start, end, openEnd) ==
  [type |-> type, name |-> name, value |-> value, attributes |-> attributes,
   children |-> children, start |-> start, end |-> end, openEnd |-> openEnd]

RECURSIVE ExprEnd(_, _, _)
\* the offset of the `}` that closes the expression whose content starts at
\* p (depth counts the braces opened inside it), or Len(b)
ExprEnd(b, p, depth) ==
  With(FindFirst(b, p, ExprMarks), LAMBDA q :
    IF q >= Len(b) THEN Len(b)
    ELSE IF b[q + 1] = ByteLbrace THEN ExprEnd(b, q + 1, depth + 1)
    ELSE IF b[q + 1] = ByteRbrace
      THEN IF depth = 0 THEN q ELSE ExprEnd(b, q + 1, depth - 1)
    ELSE With(FindFirst(b, q + 1, {b[q + 1]}), LAMBDA c :
           IF c >= Len(b) THEN Len(b) ELSE ExprEnd(b, c + 1, depth)))

\* the value of the attribute whose name ends at offset e: its kind, its
\* text and the offset after it
ParseAttrValue(b, e) ==
  IF At(b, e) # ByteEq THEN [kind |-> "empty", value |-> <<>>, next |-> e]
  ELSE IF At(b, e + 1) \in {ByteDq, ByteSq}
    THEN With(FindFirst(b, e + 2, {At(b, e + 1)}), LAMBDA c :
           [kind |-> "quoted", value |-> decode(slice(b, e + 2, c)), next |-> c + 1])
  ELSE IF At(b, e + 1) = ByteLbrace
    THEN With(ExprEnd(b, e + 2, 0), LAMBDA c :
           [kind |-> "expression", value |-> decode(slice(b, e + 2, c)),
            next |-> c + 1])
  ELSE With(FindFirst(b, e + 1, ValueStop), LAMBDA c :
         [kind |-> "quoted", value |-> decode(slice(b, e + 1, c)), next |-> c])

RECURSIVE ParseAttrs(_, _, _)
\* the attributes of an opening tag from offset p on, and where the tag ends
ParseAttrs(b, p, acc) ==
  With(SkipSpace(b, p), LAMBDA q :
    IF q >= Len(b)
      THEN [attributes |-> acc, openEnd |-> Len(b), selfClosing |-> TRUE]
    ELSE IF b[q + 1] = ByteGt
      THEN [attributes |-> acc, openEnd |-> q + 1, selfClosing |-> FALSE]
    ELSE IF b[q + 1] = ByteSlash /\ At(b, q + 1) = ByteGt
      THEN [attributes |-> acc, openEnd |-> q + 2, selfClosing |-> TRUE]
    ELSE With(FindFirst(b, q, NameStop), LAMBDA e :
           IF e = q THEN ParseAttrs(b, q + 1, acc)
           ELSE With(ParseAttrValue(b, e), LAMBDA av :
                  ParseAttrs(b, av.next,
                    Append(acc, [kind |-> av.kind,
                                 name |-> decode(slice(b, q, e)),
                                 value |-> av.value,
                                 start |-> q])))))

\* is there an opening tag at offset p
IsTagOpen(b, p) == At(b, p) = ByteLt /\ IsLetter(At(b, p + 1))

\* the end of the text that starts at p: the next markup or expression
\* (inside an expression only the next opening tag), or limit
TextEnd(b, p, limit, inExpr) ==
  FirstFrom(LAMBDA i : IF inExpr THEN IsTagOpen(b, i)
                       ELSE b[i + 1] \in {ByteLt, ByteLbrace},
            p, limit, 8)

ParseComment(b, p, limit) ==
  With(indexOfFrom(b, CommentClose, p + 4), LAMBDA c :
    MkNode("comment", <<>>, decode(slice(b, p + 4, IF c = -1 THEN limit ELSE c)),
           <<>>, <<>>, p, IF c = -1 THEN limit ELSE c + 3, p))

ParseText(b, p, limit, inExpr) ==
  With(TextEnd(b, p + 1, limit, inExpr), LAMBDA e :
    MkNode("text", <<>>, decode(slice(b, p, e)), <<>>, <<>>, p, e, p))

\* the content of a script or style element: one text node up to its
\* closing tag
RawText(b, name, from, limit) ==
  With(indexOfFrom(b, CloseOpen \o name, from), LAMBDA c :
    With(IF c = -1 THEN limit ELSE c, LAMBDA rawEnd :
      [nodes |-> IF rawEnd > from
                   THEN <<MkNode("text", <<>>, decode(slice(b, from, rawEnd)),
                                 <<>>, <<>>, from, rawEnd, from)>>
                   ELSE <<>>,
       pos |-> rawEnd]))

RECURSIVE ParseNodes(_, _, _, _, _)
RECURSIVE ParseNode(_, _, _, _)
RECURSIVE ParseElement(_, _, _)
RECURSIVE ParseExpression(_, _, _)

\* the sibling nodes from offset p up to limit or up to a closing tag
ParseNodes(b, p, limit, inExpr, acc) ==
  IF p >= limit THEN [nodes |-> acc, pos |-> p]
  ELSE IF ~inExpr /\ At(b, p) = ByteLt /\ At(b, p + 1) = ByteSlash
    THEN [nodes |-> acc, pos |-> p]
  ELSE With(ParseNode(b, p, limit, inExpr), LAMBDA n :
         ParseNodes(b, n.end, limit, inExpr, Append(acc, n)))

\* the node that starts at offset p
ParseNode(b, p, limit, inExpr) ==
  IF ~inExpr /\ MatchAt(b, CommentOpen, p) THEN ParseComment(b, p, limit)
  ELSE IF IsTagOpen(b, p) THEN ParseElement(b, p, limit)
  ELSE IF ~inExpr /\ At(b, p) = ByteLbrace THEN ParseExpression(b, p, limit)
  ELSE ParseText(b, p, limit, inExpr)

\* the element or component whose opening tag starts at offset p
ParseElement(b, p, limit) ==
  With(FindFirst(b, p + 1, NameStop), LAMBDA ne :
    With(decode(slice(b, p + 1, ne)), LAMBDA name :
      With(ParseAttrs(b, ne, <<>>), LAMBDA tag :
        IF tag.selfClosing \/ name \in VOID_ELEMENTS
          THEN MkNode(IF IsUpper(name[1]) THEN "component" ELSE "element",
                      name, <<>>, tag.attributes, <<>>, p, tag.openEnd, tag.openEnd)
          ELSE With(IF name \in RAW_TEXT_ELEMENTS
                      THEN RawText(b, name, tag.openEnd, limit)
                      ELSE ParseNodes(b, tag.openEnd, limit, FALSE, <<>>),
                    LAMBDA kids :
                      MkNode(IF IsUpper(name[1]) THEN "component" ELSE "element",
                             name, <<>>, tag.attributes, kids.nodes, p,
                             Least(FindFirst(b, kids.pos, {ByteGt}) + 1, limit),
                             tag.openEnd)))))

\* the expression whose `{` is at offset p
ParseExpression(b, p, limit) ==
  With(Least(ExprEnd(b, p + 1, 0), limit), LAMBDA c :
    MkNode("expression", <<>>, <<>>, <<>>,
           ParseNodes(b, p + 1, c, TRUE, <<>>).nodes, p, Least(c + 1, limit), p))

\* the end of the frontmatter fence `---` ... `---` a source may start
\* with, or 0
FrontmatterEnd(b) ==
  IF MatchAt(b, Fence, 0)
    THEN With(indexOfFrom(b, Fence, 3), LAMBDA c : IF c = -1 THEN 0 ELSE c + 3)
    ELSE 0

\* the AST of the source with bytes b: a root node over the top-level nodes
ParseBytes(b) ==
  With(FrontmatterEnd(b), LAMBDA fe :
    MkNode("root", <<>>, <<>>, <<>>,
           ParseNodes(b, fe, Len(b), FALSE,
                      IF fe = 0 THEN <<>>
                      ELSE <<MkNode("frontmatter", <<>>, decode(slice(b, 3, fe - 3)),
                                    <<>>, <<>>, 0, fe, 0)>>).nodes,
           0, Len(b), 0))

parse(src) == ParseBytes(encode(src))

\* ------------------------------------------------------------------------
\* page-scanner.ts: constants
\* ------------------------------------------------------------------------

SKIP_ELEMENTS == {Str(n) : n \in {"script", "style", "head", "code", "pre"}}

CONTENT_ATTRS ==
  {Str(n) : n \in {"alt", "title", "placeholder", "aria-label", "aria-description"}}

CONTENT_PROPS ==
  {Str(n) : n \in {"title", "subtitle", "heading", "description", "label",
                   "text", "cta", "alt", "placeholder"}}

CONTENT_ELEMENTS ==
  {Str(n) : n \in {"h1", "h2", "h3", "h4", "h5", "h6", "p", "a", "button",
                   "label", "span", "li", "td", "th", "figcaption",
                   "blockquote", "dt", "dd"}}

SECTION_ELEMENTS ==
  {Str(n) : n \in {"header", "section", "footer", "nav", "main", "article", "aside"}}

\* the window of findOpenTagEnd and findAttributeValueOffset
TAG_WINDOW == 2000

\* the reach of the fallback search of applyTextEdits on either side
FALLBACK_WINDOW == 200

\* the length above which a text field is multiline
MULTILINE_LENGTH == 80

\* the shortest trimmed attribute value that makes a field
MIN_ATTR_LENGTH == 2

TextLabel == Str("text")
TextLabelSuffix == Str(" text")
Blank == Str(" ")
Colon == Str(":")
TagMarks == {ByteDq, ByteSq, ByteLbrace, ByteRbrace, ByteGt}

\* ------------------------------------------------------------------------
\* @astrojs/compiler/utils `is`
\* ------------------------------------------------------------------------

IsElement(node) == node.type = "element"
IsComponent(node) == node.type = "component"
IsText(node) == node.type = "text"
IsExpression(node) == node.type = "expression"
IsFrontmatter(node) == node.type = "frontmatter"
IsParent(node) == node.type \in {"root", "element", "component", "expression"}

\* the `parent` of the root: undefined
NoParent == MkNode("undefined", <<>>, <<>>, <<>>, <<>>, 0, 0, 0)

\* ------------------------------------------------------------------------
\* findOpenTagEnd (lines 37-56)
\* ------------------------------------------------------------------------

RECURSIVE ScanTag(_, _, _)
\* the loop of lines 41-54 from index i on, outside a quote: the index of
\* the first `>` at brace depth 0, or -1.  Characters that are no quote,
\* brace or `>` change nothing and are stepped over at once; so is a quoted
\* run up to the quote that closes it.
ScanTag(region, i, braceDepth) ==
  With(FindFirst(region, i, TagMarks), LAMBDA q :
    IF q >= Len(region) THEN -1
    ELSE IF region[q + 1] \in {ByteDq, ByteSq}
      THEN With(FindFirst(region, q + 1, {region[q + 1]}), LAMBDA c :
             IF c >= Len(region) THEN -1 ELSE ScanTag(region, c + 1, braceDepth))
    ELSE IF region[q + 1] = ByteLbrace THEN ScanTag(region, q + 1, braceDepth + 1)
    ELSE IF region[q + 1] = ByteRbrace
      THEN ScanTag(region, q + 1, IF braceDepth > 0 THEN braceDepth - 1 ELSE 0)
    ELSE IF braceDepth = 0 THEN q
    ELSE ScanTag(region, q + 1, braceDepth))

\* OffsetAfter counting the code units of the region for its bytes
OffsetAfterInUnits(region, startOffset, i) ==
  IF i = -1 THEN -1 ELSE startOffset + i + 1

\* lines 51-52 for the `>` found at index i of region
OffsetAfter(region, startOffset, i) ==
  IF i = -1 THEN -1 ELSE startOffset + Len(encode(slice(region, 0, i + 1)))

findOpenTagEnd(sourceBytes, startOffset) ==
  With(decode(slice(sourceBytes, startOffset,
                    Least(startOffset + TAG_WINDOW, Len(sourceBytes)))),
       LAMBDA region : OffsetAfter(region, startOffset, ScanTag(region, 0, 0)))

\* ------------------------------------------------------------------------
\* findAttributeValueOffset (lines 268-293)
\* ------------------------------------------------------------------------

\* the loop of lines 281-290: the first of the two patterns that is found
PatternIndex(searchRegion, name) ==
  With(indexOf(searchRegion, name \o <<ByteEq, ByteDq>>), LAMBDA dq :
    IF dq # -1 THEN dq ELSE indexOf(searchRegion, name \o <<ByteEq, ByteSq>>))

\* lines 286-289 for the index idx of the pattern
ValueOffset(searchRegion, startOffset, name, idx) ==
  IF idx = -1 THEN -1
  ELSE startOffset + Len(encode(slice(searchRegion, 0, idx + Len(name) + 2)))

findAttributeValueOffset(sourceBytes, parent, attr) ==
  With(findOpenTagEnd(sourceBytes, parent.start), LAMBDA tagEnd :
    With(decode(slice(sourceBytes, parent.start,
                      IF tagEnd # -1 THEN tagEnd
                      ELSE Least(parent.start + TAG_WINDOW, Len(sourceBytes)))),
         LAMBDA searchRegion :
           ValueOffset(searchRegion, parent.start, attr.name,
                       PatternIndex(searchRegion, attr.name))))

\* ------------------------------------------------------------------------
\* Fields.  The id `text:<offset>` or `attr:<offset>:<name>` is the record
\* of its parts.
\* ------------------------------------------------------------------------

TextId(offset) == [kind |-> "text", offset |-> offset, name |-> <<>>]

AttrId(offset, name) == [kind |-> "attr", offset |-> offset, name |-> name]

\* String.prototype.length: the number of UTF-16 code units
JsLength(s) == Len(s)

includes(s, u) == \E i \in 1..Len(s) : s[i] = u

\* ------------------------------------------------------------------------
\* extractTextField (lines 179-225): the fields list after the call
\* ------------------------------------------------------------------------

\* lines 192-194
HasNonTextSiblings(parent) ==
  \E k \in 1..Len(parent.children) :
    \/ IsElement(parent.children[k])
    \/ IsComponent(parent.children[k])
    \/ IsExpression(parent.children[k])

\* FilteredOut without the test of the siblings (line 195)
FilteredOutIgnoringSiblings(node, parent) ==
  /\ IsBlank(node.value)
  /\ \/ ~IsParent(parent)
     \/ ~IsElement(parent)
     \/ parent.name \notin CONTENT_ELEMENTS

\* the smart whitespace filter of lines 190-198 returns
FilteredOut(node, parent) ==
  /\ IsBlank(node.value)
  /\ \/ ~IsParent(parent)
     \/ HasNonTextSiblings(parent)
     \/ ~IsElement(parent)
     \/ parent.name \notin CONTENT_ELEMENTS

\* PushTextField with the length counted in UTF-16 code units instead of bytes
PushTextFieldInUnits(node, parent, sourceBytes, fields, group, valueBytes) ==
  IF decode(slice(sourceBytes, node.start, node.start + Len(valueBytes))) # node.value
    THEN fields
  ELSE Append(fields,
         [id |-> TextId(node.start),
          label |-> IF IsElement(parent) \/ IsComponent(parent)
                      THEN parent.name \o TextLabelSuffix ELSE TextLabel,
          value |-> node.value, kind |-> "text", offset |-> node.start,
          length |-> JsLength(node.value),
          multiline |-> JsLength(node.value) > MULTILINE_LENGTH
                          \/ includes(node.value, 10),
          group |-> group])

\* lines 200-224 for the encoded value
PushTextField(node, parent, sourceBytes, fields, group, valueBytes) ==
  IF decode(slice(sourceBytes, node.start, node.start + Len(valueBytes))) # node.value
    THEN fields
  ELSE Append(fields,
         [id |-> TextId(node.start),
          label |-> IF IsElement(parent) \/ IsComponent(parent)
                      THEN parent.name \o TextLabelSuffix ELSE TextLabel,
          value |-> node.value, kind |-> "text", offset |-> node.start,
          length |-> Len(valueBytes),
          multiline |-> JsLength(node.value) > MULTILINE_LENGTH
                          \/ includes(node.value, 10),
          group |-> group])

extractTextField(node, parent, sourceBytes, fields, group) ==
  IF FilteredOut(node, parent) THEN fields
  ELSE PushTextField(node, parent, sourceBytes, fields, group, encode(node.value))

\* ------------------------------------------------------------------------
\* extractAttrFields (lines 227-261)
\* ------------------------------------------------------------------------

\* lines 245-259 with the multiline hint computed as line 222 computes it
PushAttrFieldByRule(tagNode, attr, sourceBytes, group, attrOffset, attrValueBytes) ==
  IF attrOffset = -1 THEN <<>>
  ELSE IF decode(slice(sourceBytes, attrOffset, attrOffset + Len(attrValueBytes)))
            # attr.value
    THEN <<>>
  ELSE <<[id |-> AttrId(attrOffset, attr.name),
          label |-> tagNode.name \o Blank \o attr.name,
          value |-> attr.value, kind |-> "attribute",
          offset |-> attrOffset, length |-> Len(attrValueBytes),
          multiline |-> JsLength(attr.value) > MULTILINE_LENGTH
                          \/ includes(attr.value, 10),
          group |-> group]>>

\* lines 245-259 for the offset found and the encoded value
PushAttrField(tagNode, attr, sourceBytes, group, attrOffset, attrValueBytes) ==
  IF attrOffset = -1 THEN <<>>
  ELSE IF decode(slice(sourceBytes, attrOffset, attrOffset + Len(attrValueBytes)))
            # attr.value
    THEN <<>>
  ELSE <<[id |-> AttrId(attrOffset, attr.name),
          label |-> tagNode.name \o Blank \o attr.name,
          value |-> attr.value, kind |-> "attribute",
          offset |-> attrOffset, length |-> Len(attrValueBytes),
          multiline |-> FALSE, group |-> group]>>

\* AttrField without the test of the trimmed length (lines 239-240)
AttrFieldAnyLength(tagNode, attr, sourceBytes, group) ==
  IF attr.kind # "quoted" THEN <<>>
  ELSE IF attr.name \notin (IF IsComponent(tagNode) THEN CONTENT_PROPS
                            ELSE CONTENT_ATTRS)
    THEN <<>>
  ELSE PushAttrField(tagNode, attr, sourceBytes, group,
                     findAttributeValueOffset(sourceBytes, tagNode, attr),
                     encode(attr.value))

\* the body of the loop of lines 235-260 for one attribute: the fields it
\* pushes (none or one)
AttrField(tagNode, attr, sourceBytes, group) ==
  IF attr.kind # "quoted" THEN <<>>
  ELSE IF attr.name \notin (IF IsComponent(tagNode) THEN CONTENT_PROPS
                            ELSE CONTENT_ATTRS)
    THEN <<>>
  ELSE IF JsLength(trim(attr.value)) < MIN_ATTR_LENGTH THEN <<>>
  ELSE PushAttrField(tagNode, attr, sourceBytes, group,
                     findAttributeValueOffset(sourceBytes, tagNode, attr),
                     encode(attr.value))

extractAttrFields(tagNode, sourceBytes, fields, group) ==
  fields \o Flatten([k \in 1..Len(tagNode.attributes) |->
                       AttrField(tagNode, tagNode.attributes[k], sourceBytes, group)])

\* ------------------------------------------------------------------------
\* extractTextFields (lines 114-177)
\* ------------------------------------------------------------------------

RECURSIVE NumStr(_)
\* the decimal digits of a natural number, as a template literal prints it
NumStr(n) ==
  IF n < 10 THEN <<48 + n>> ELSE NumStr(n \div 10) \o <<48 + (n % 10)>>

\* ShouldSkip without the skip inherited from the parent
ShouldSkipOwn(node, skip) ==
  \/ IsExpression(node)
  \/ IsFrontmatter(node)
  \/ (IsElement(node) /\ node.name \in SKIP_ELEMENTS)

\* shouldSkip of lines 123-126
ShouldSkip(node, skip) ==
  \/ skip
  \/ IsExpression(node)
  \/ IsFrontmatter(node)
  \/ (IsElement(node) /\ node.name \in SKIP_ELEMENTS)

\* is the node a landmark element (the test of line 130)
EntersSection(node) == IsElement(node) /\ node.name \in SECTION_ELEMENTS

RECURSIVE visit(_, _, _, _)
\* The walk of lines 121-173 and 175, as the list of its calls in the order
\* they are made (document order): for each call its node and parent, the
\* shouldSkip it computes (lines 123-126) and the landmark element whose id
\* is its currentGroup (lines 129-134), named by its start offset (-1: the
\* group is still ""); then the calls for the children (lines 147-151).
visit(node, parent, skip, section) ==
  <<[node |-> node, parent |-> parent, shouldSkip |-> ShouldSkip(node, skip),
     section |-> IF EntersSection(node) THEN node.start ELSE section]>>
    \o (IF IsParent(node)
          THEN Flatten([k \in 1..Len(node.children) |->
                          visit(node.children[k], node, ShouldSkip(node, skip),
                                IF EntersSection(node) THEN node.start ELSE section)])
          ELSE <<>>)

VARIABLE
  sectionCounters  \* the Map of line 118, as the walk that ran last left it

\* an empty Map: a name that is not in the map counts from 0 (`?? 0`)
EmptyMap == [n \in SECTION_ELEMENTS |-> 0]

\* a Map kept at module level: every call counts on in the one map
SharedSectionCounters == sectionCounters

\* line 118: sectionCounters = new Map()
NewSectionCounters == EmptyMap

\* how many of the calls enter a landmark element named n
Entered(calls, n) ==
  Cardinality({i \in 1..Len(calls) :
                 EntersSection(calls[i].node) /\ calls[i].node.name = n})

\* the value of sectionCounters for the landmark element of call j when the
\* walk enters it (lines 131-132): what the map started with, and the calls
\* before it, and it, that entered a landmark element of that name
SectionCount(calls, j) ==
  NewSectionCounters[calls[j].node.name]
    + Entered(SubSeq(calls, 1, j), calls[j].node.name)

\* sectionCounters after the walk (line 132 for every landmark element)
CountersAfter(calls) ==
  [n \in SECTION_ELEMENTS |-> NewSectionCounters[n] + Entered(calls, n)]

\* GroupName with the number also after the first landmark of a name
GroupNameNumbered(calls, j) ==
  calls[j].node.name \o Colon \o NumStr(SectionCount(calls, j))

\* line 133 for the landmark element of call j
GroupName(calls, j) ==
  IF SectionCount(calls, j) = 1 THEN calls[j].node.name
  ELSE calls[j].node.name \o Colon \o NumStr(SectionCount(calls, j))

\* currentGroup of call r (lines 129-134)
CurrentGroup(calls, r) ==
  IF calls[r].section = -1 THEN <<>>
  ELSE GroupName(calls, CHOOSE i \in 1..r :
                          /\ EntersSection(calls[i].node)
                          /\ calls[i].node.start = calls[r].section)

\* the fields call r pushes before it recurses (lines 136-144)
OwnFields(calls, r, sourceBytes) ==
  IF calls[r].shouldSkip THEN <<>>
  ELSE IF IsText(calls[r].node)
    THEN extractTextField(calls[r].node, calls[r].parent, sourceBytes, <<>>,
                          CurrentGroup(calls, r))
  ELSE IF IsElement(calls[r].node) \/ IsComponent(calls[r].node)
    THEN extractAttrFields(calls[r].node, sourceBytes, <<>>, CurrentGroup(calls, r))
  ELSE <<>>

\* the calls made below call r: those for the nodes inside its node
Below(calls, r) ==
  {d \in (r + 1)..Len(calls) :
     /\ calls[r].node.children # <<>>
     /\ calls[d].node.start >= calls[r].node.start
     /\ calls[d].node.end <= calls[r].node.end}

\* fields.some(f => f.kind === 'text')
HasTextField(fs) == \E k \in 1..Len(fs) : fs[k].kind = "text"

\* lines 157-169 for the offset findOpenTagEnd returned
PushPhantom(node, group, insertOffset) ==
  IF insertOffset = -1 THEN <<>>
  ELSE <<[id |-> TextId(insertOffset), label |-> node.name \o TextLabelSuffix,
          value |-> <<>>, kind |-> "text", offset |-> insertOffset, length |-> 0,
          multiline |-> FALSE, group |-> group]>>

RECURSIVE PhantomField(_, _, _)
\* the phantom field call r pushes after its children (lines 152-171);
\* hasTextFieldFromChildren looks at what the calls below it pushed
PhantomField(calls, r, sourceBytes) ==
  IF /\ IsParent(calls[r].node)
     /\ ~calls[r].shouldSkip
     /\ IsElement(calls[r].node)
     /\ calls[r].node.name \in CONTENT_ELEMENTS
     /\ Len(calls[r].node.children) = 0
     /\ ~\E d \in Below(calls, r) :
           HasTextField(OwnFields(calls, d, sourceBytes)
                          \o PhantomField(calls, d, sourceBytes))
    THEN PushPhantom(calls[r].node, CurrentGroup(calls, r),
                     findOpenTagEnd(sourceBytes, calls[r].node.start))
    ELSE <<>>

\* fields after the walk (line 176).  A node that gets a phantom field has
\* no children, so the phantom field follows the node's own fields at once.
FieldsOfCalls(calls, sourceBytes) ==
  Flatten([r \in 1..Len(calls) |->
             OwnFields(calls, r, sourceBytes) \o PhantomField(calls, r, sourceBytes)])

extractFromAst(ast, sourceBytes) ==
  FieldsOfCalls(visit(ast, NoParent, FALSE, -1), sourceBytes)

extractTextFields(src) == extractFromAst(parse(src), encode(src))

\* the walk of line 175 with what it leaves behind: the fields returned and
\* the sectionCounters map at its end
WalkAst(ast, sourceBytes) ==
  With(visit(ast, NoParent, FALSE, -1), LAMBDA calls :
    [fields |-> FieldsOfCalls(calls, sourceBytes),
     sectionCounters |-> CountersAfter(calls)])

\* one call of extractTextFields, from line 115 to line 176
RunExtract(src) == WalkAst(parse(src), encode(src))

\* ------------------------------------------------------------------------
\* spliceBytes (lines 372-382)
\* ------------------------------------------------------------------------

\* SpliceEncoded with the replaced bytes kept after the replacement
SpliceKeepingTail(bytes, offset, length, replacement) ==
  decode(slice(bytes, 0, offset) \o encode(replacement) \o sliceFrom(bytes, offset))

\* lines 374-381 for the encoded source
SpliceEncoded(bytes, offset, length, replacement) ==
  decode(slice(bytes, 0, offset) \o encode(replacement)
           \o sliceFrom(bytes, offset + length))

spliceBytes(src, offset, length, replacement) ==
  SpliceEncoded(encode(src), offset, length, replacement)

\* ------------------------------------------------------------------------
\* applyTextEdits (lines 320-369)
\* ------------------------------------------------------------------------

\* fields.find((f) => f.id === edit.id): the index of the first, or 0
FindField(fields, id) ==
  With({k \in 1..Len(fields) : fields[k].id = id},
       LAMBDA hits : IF hits = {} THEN 0 ELSE Min(hits))

\* lines 354-357 for the search region and the index found in it
PushFallback(searchRegion, searchStart, edit, oldValueBytes, fallbackIdx) ==
  IF fallbackIdx = -1 THEN <<>>
  ELSE <<[offset |-> searchStart + Len(encode(slice(searchRegion, 0, fallbackIdx))),
          length |-> Len(oldValueBytes), newValue |-> edit.value]>>

\* the fallback search over the whole source instead of the window
FallbackAnywhere(field, sourceBytes, edit, oldValueBytes, searchStart) ==
  With(decode(sourceBytes),
       LAMBDA searchRegion :
         PushFallback(searchRegion, 0, edit, oldValueBytes,
                      indexOf(searchRegion, edit.oldValue)))

\* lines 349-357: the fallback search around the field's offset
Fallback(field, sourceBytes, edit, oldValueBytes, searchStart) ==
  With(decode(slice(sourceBytes, searchStart,
                    Least(Len(sourceBytes),
                          field.offset + Len(oldValueBytes) + FALLBACK_WINDOW))),
       LAMBDA searchRegion :
         PushFallback(searchRegion, searchStart, edit, oldValueBytes,
                      indexOf(searchRegion, edit.oldValue)))

\* lines 340-357 for the encoded oldValue
ResolveAt(field, sourceBytes, edit, oldValueBytes) ==
  IF decode(slice(sourceBytes, field.offset, field.offset + Len(oldValueBytes)))
       = edit.oldValue
    THEN <<[offset |-> field.offset, length |-> Len(oldValueBytes),
            newValue |-> edit.value]>>
  ELSE Fallback(field, sourceBytes, edit, oldValueBytes,
                IF field.offset - FALLBACK_WINDOW > 0
                  THEN field.offset - FALLBACK_WINDOW ELSE 0)

\* ResolveField without the test of line 334: an empty oldValue inserts
\* whatever the length of the field
ResolveFieldUnguarded(field, sourceBytes, edit) ==
  IF edit.oldValue = <<>>
    THEN <<[offset |-> field.offset, length |-> 0, newValue |-> edit.value]>>
  ELSE ResolveAt(field, sourceBytes, edit, encode(edit.oldValue))

\* ResolveField with an insertion that overwrites as many bytes as it writes
ResolveFieldOverwriting(field, sourceBytes, edit) ==
  IF edit.oldValue = <<>>
    THEN IF field.length # 0 THEN <<>>
         ELSE <<[offset |-> field.offset, length |-> Len(encode(edit.value)),
                 newValue |-> edit.value]>>
  ELSE ResolveAt(field, sourceBytes, edit, encode(edit.oldValue))

\* lines 332-357 for the field found
ResolveField(field, sourceBytes, edit) ==
  IF edit.oldValue = <<>>
    THEN IF field.length # 0 THEN <<>>
         ELSE <<[offset |-> field.offset, length |-> 0, newValue |-> edit.value]>>
  ELSE ResolveAt(field, sourceBytes, edit, encode(edit.oldValue))

\* the body of the loop of lines 328-358 for one edit: the replacements it
\* pushes (none or one)
ResolveEdit(fields, sourceBytes, edit) ==
  With(FindField(fields, edit.id), LAMBDA k :
    IF k = 0 THEN <<>> ELSE ResolveField(fields[k], sourceBytes, edit))

RECURSIVE ResolveEditsUntilDrop(_, _, _, _, _)
\* ResolveEdits with `break` for `continue`: the loop ends at the first edit
\* that pushes nothing
ResolveEditsUntilDrop(fields, sourceBytes, edits, i, replacements) ==
  IF i > Len(edits) THEN replacements
  ELSE IF ResolveEdit(fields, sourceBytes, edits[i]) = <<>> THEN replacements
  ELSE ResolveEditsUntilDrop(fields, sourceBytes, edits, i + 1,
         replacements \o ResolveEdit(fields, sourceBytes, edits[i]))

RECURSIVE ResolveEdits(_, _, _, _, _)
\* the loop of lines 328-358 from edit i on
ResolveEdits(fields, sourceBytes, edits, i, replacements) ==
  IF i > Len(edits) THEN replacements
  ELSE ResolveEdits(fields, sourceBytes, edits, i + 1,
         replacements \o ResolveEdit(fields, sourceBytes, edits[i]))

\* where a replacement goes into a list sorted by descending offset: after
\* the last one whose offset is not lower
InsertSorted(rest, last) ==
  With(Cardinality({k \in 1..Len(rest) : rest[k].offset >= last.offset}),
       LAMBDA at : SubSeq(rest, 1, at) \o <<last>> \o SubSeq(rest, at + 1, Len(rest)))

RECURSIVE SortDescending(_)
\* replacements.sort((a, b) => b.offset - a.offset): stable, so replacements
\* with equal offsets keep their order
SortDescending(reps) ==
  IF Len(reps) <= 1 THEN reps
  ELSE InsertSorted(SortDescending(SubSeq(reps, 1, Len(reps) - 1)), reps[Len(reps)])

RECURSIVE SpliceAll(_, _, _)
\* the loop of lines 364-366 from replacement i on
SpliceAll(result, reps, i) ==
  IF i > Len(reps) THEN result
  ELSE SpliceAll(spliceBytes(result, reps[i].offset, reps[i].length,
                             reps[i].newValue), reps, i + 1)

\* lines 325-361 for the fields of line 324: the sorted replacements
ScheduledReplacements(fields, src, edits) ==
  SortDescending(ResolveEdits(fields, encode(src), edits, 1, <<>>))

\* lines 325-368 for the fields of line 324: the replacements scheduled and
\* the text returned
ApplyToFields(fields, src, edits) ==
  With(ScheduledReplacements(fields, src, edits), LAMBDA reps :
    [replacements |-> reps, result |-> SpliceAll(src, reps, 1)])

applyTextEdits(src, edits) == ApplyToFields(extractTextFields(src), src, edits).result

\* ------------------------------------------------------------------------
\* Inputs: the page sources and the edits
\* ------------------------------------------------------------------------

\* the longest batch of edits one call gets
MaxEdits == 2

DocHeading == Str("<h2></h2>")

DocImage == Str("<img alt=\"A cat\" src={dynamicUrl} />")

DocIndent == Str("<div>\n  <p>Hi</p>\n</div>")

DocSections ==
  Str("<section><h1>One</h1></section>")
    \o Str("<section><nav><a title=\"Go\">x</a></nav></section>")

DocMultiByte ==
  Str("<p title=\"") \o Eacute \o Euro \o Str("\">caf") \o Eacute \o Str(" ")
    \o Party \o Str("</p><h3></h3>")

DocSkip ==
  Str("---\nconst t = \"x\";\n---\n<pre><span></span>raw</pre>")
    \o Str("<code title=\"ab\">c</code><p>{t}</p><style>p {}</style>")
    \o Str("<head><title>T</title></head><script>var s;</script><h1>Top</h1>")

DocComment == Str("<!-- Hi --><p>Welcome</p><p>Hi</p>")

DocAttrs ==
  Str("<a href=\"/x\" title=\"T\" class=\"btn\" aria-label=\"Go home\">Go</a>")
    \o Str("<Hero heading=\"Hi there\" alt=\"\" cta={c} id=\"top\" />")

DocStale ==
  Str("<p>") \o Repeat("a", 60) \o Str("</p><h2>Hello</h2>")

DocLongTag ==
  Str("<p class=\"") \o Repeat("x", TAG_WINDOW) \o Str("\"></p><li></li>")

\* the text of the second field starts at byte 205, so the fallback window
\* of an edit for it starts at byte 5, the second byte of the e-acute
DocCut ==
  Str("<h1>") \o Eacute \o Str(" Hi</h1><h2 class=\"") \o Repeat("x", 178)
    \o Str("\">Welcome</h2>")

\* "Hi" starts at byte 3, FALLBACK_WINDOW bytes before "Welcome" (byte 203)
\* and more than that before "Goodbye"
DocWindowBefore ==
  Str("<p>Hi</p><h2 class=\"") \o Repeat("x", 181)
    \o Str("\">Welcome</h2><h3>Goodbye</h3>")

\* "Hi" starts at byte 220, FALLBACK_WINDOW bytes after "Welcome" (byte 20)
\* and more than that after "Goodbye"
DocWindowAfter ==
  Str("<h3>Goodbye</h3><h2>Welcome</h2><p class=\"") \o Repeat("x", 176)
    \o Str("\">Hi</p>")

\* an opening tag with a `>` in a quoted value, after a multi-byte character,
\* and one in an expression
DocQuoted ==
  Str("<h2 title=\"") \o Eacute \o Str(">a\" data-x={n > 1}></h2><li></li>")

\* an empty heading written as a self-closed tag, after a paragraph
DocSelfClosed == Str("<p>Hi</p><h2 />")

Documents ==
  {DocHeading, DocImage, DocIndent, DocSections, DocMultiByte, DocSkip,
   DocComment, DocAttrs, DocStale, DocLongTag, DocCut, DocWindowBefore,
   DocWindowAfter, DocQuoted, DocSelfClosed}

\* the parts a page is put together from
FragBlank == Str("<p> </p>")
FragBlankDiv == Str("<div>") \o Nbsp \o Str("</div>")
FragBlankSibling == Str("<li> <b>x</b> </li>")
FragBlankCard == Str("<Card> </Card>")
FragBlankExpr == Str("<p> {t}</p>")
FragBlankCode == Str("<code> </code>")
FragNewline == Str("\n")
FragSection == Str("<section><h1>One</h1></section>")
FragNested ==
  Str("<section title=\"Sec\"><nav><a title=\"Go\">x</a></nav>tail</section>")
FragSkippedAside == Str("<pre><aside>x</aside></pre><aside>y</aside>")
FragLines == Str("<span>a\nb</span>")
FragLong == Str("<p>") \o Repeat("a", MULTILINE_LENGTH + 1) \o Str("</p>")
FragNotLong == Str("<p>") \o Repeat("a", MULTILINE_LENGTH) \o Str("</p>")
FragLongAlt ==
  Str("<img alt=\"") \o Repeat("b", MULTILINE_LENGTH + 1) \o Str("\">")
FragCard == Str("<Card subtitle=\"Hello\" title=\"Hello\" />")
FragExprAttr == Str("<a href={f('title=\"Go\"')} title=\"Go\">x</a>")
FragTwice == Str("<img alt=\"Hi\" alt=\"Hi\">")
FragSelfClosed == Str("<h2 />Hi")

Fragments ==
  {FragBlank, FragBlankDiv, FragBlankSibling, FragBlankCard, FragBlankExpr,
   FragBlankCode, FragNewline, FragSection, FragNested, FragSkippedAside,
   FragLines, FragLong, FragNotLong, FragLongAlt, FragCard, FragExprAttr, FragTwice,
   FragSelfClosed, DocIndent, DocImage, DocMultiByte}

\* the pages: one part, or two parts one after the other
Pages == Fragments \cup {a \o b : a, b \in Fragments}

\* the text another writer inserts and how far before a field
InsertedText == Str("NEW ")
InsertDistance == 50

\* an oldValue that is not the field's
OtherOldValue == Str("Hi")

\* the value an editor types into the k-th field it holds
ValuePrefix == Str("v")
NewValue(k) == ValuePrefix \o NumStr(k) \o Eacute

\* an id no extraction of these sources yields
UnknownId == TextId(999999)

\* the edits a client may send once it holds the fields fs
EditsOf(fs) ==
  UNION {{[id |-> fs[k].id, oldValue |-> old, value |-> NewValue(k)] :
            old \in {fs[k].value, <<>>, OtherOldValue}} :
         k \in 1..Len(fs)}
    \cup {[id |-> UnknownId, oldValue |-> OtherOldValue, value |-> NewValue(0)]}

Batches(fs) == UNION {[1..n -> EditsOf(fs)] : n \in 1..MaxEdits}

\* the batch of the no-op round trip
NoOpBatch(fs) ==
  [k \in 1..Len(fs) |-> [id |-> fs[k].id, oldValue |-> fs[k].value, value |-> fs[k].value]]

\* ------------------------------------------------------------------------
\* State: one page and one editor; the calls in flight in the process
\* ------------------------------------------------------------------------

VARIABLES
  source,        \* the page source as stored
  scanned,       \* extractTextFields(source), kept with the stored source
  pc,            \* "start", "fetched", "changed" or "applied"
  extracted,     \* the source the editor's fields were extracted from
  fields,        \* what extractTextFields returned to the editor
  edits,         \* the batch given to applyTextEdits
  replacements,  \* the replacements that call scheduled
  result,        \* the text that call returned
  tasks,         \* the calls in flight: for each task its arguments, where
                 \* it is suspended, its local `fields` and what it returned
  returned,      \* what the extractTextFields calls returned, oldest first
  made,          \* how many calls have been made
  initialFields, \* PageEditor: the fields as last fetched or saved
  saving,        \* PageEditor: the edits of the PUT in flight, or <<>>
  saves,         \* how many PUT requests the editor has sent
  answer,        \* the status of the last response the editor got
  head,          \* the commit the branch points at (commits are counted)
  requests       \* the PUT handlers in flight: for each its request, where
                 \* it is suspended and what it has read so far

pageVars == <<source, scanned, pc, extracted, fields, edits, replacements, result>>
taskVars == <<tasks, returned, made>>

sessionVars == <<initialFields, saving, saves, answer>>
putVars == <<head, requests>>

vars ==
  <<source, scanned, pc, extracted, fields, edits, replacements, result,
    sectionCounters, tasks, returned, made, initialFields, saving, saves,
    answer, head, requests>>

\* the tasks of the process that call the page scanner
Tasks == {1, 2}

\* a task that has made no call
IdleTask ==
  [pc |-> "idle", kind |-> "none", source |-> <<>>, edits |-> <<>>,
   fields |-> <<>>, result |-> <<>>]

\* no call has been made yet
NoCalls ==
  /\ tasks = [t \in Tasks |-> IdleTask]
  /\ returned = <<>>
  /\ made = 0

\* no editor session is open
NoSession ==
  /\ initialFields = <<>>
  /\ saving = <<>>
  /\ saves = 0
  /\ answer = 0

\* no PUT request has arrived
NoRequests ==
  /\ head = 0
  /\ requests = <<>>

\* no page is open
NoPage ==
  /\ source = <<>>
  /\ scanned = <<>>
  /\ pc = "none"
  /\ extracted = <<>>
  /\ fields = <<>>
  /\ edits = <<>>
  /\ replacements = <<>>
  /\ result = <<>>

\* the page src is stored and its fields are known
Stored(src) ==
  /\ source = src
  /\ \E run \in {RunExtract(src)} :
       /\ scanned = run.fields
       /\ sectionCounters = run.sectionCounters
  /\ pc = "start"
  /\ extracted = <<>>
  /\ fields = <<>>
  /\ edits = <<>>
  /\ replacements = <<>>
  /\ result = <<>>

Init ==
  /\ \E src \in Documents : Stored(src)
  /\ NoCalls
  /\ NoSession
  /\ NoRequests

\* GET: the editor fetches the fields of the stored page
Extract ==
  /\ pc = "start"
  /\ fields' = scanned
  /\ extracted' = source
  /\ pc' = "fetched"
  /\ UNCHANGED <<source, scanned, edits, replacements, result>>
  /\ UNCHANGED <<sectionCounters, taskVars>>
  /\ UNCHANGED <<sessionVars, putVars>>

\* another writer inserts text into the stored page InsertDistance bytes
\* before a field the editor holds, inside the text of another field
InsertBefore ==
  /\ pc = "fetched"
  /\ \E k \in 1..Len(fields), g \in 1..Len(fields) :
       /\ g # k
       /\ fields[g].kind = "text"
       /\ fields[g].offset <= fields[k].offset - InsertDistance
       /\ fields[k].offset - InsertDistance <= fields[g].offset + fields[g].length
       /\ source' = spliceBytes(source, fields[k].offset - InsertDistance, 0,
                                InsertedText)
  /\ \E run \in {RunExtract(source')} :
       /\ scanned' = run.fields
       /\ sectionCounters' = run.sectionCounters
  /\ pc' = "changed"
  /\ UNCHANGED <<extracted, fields, edits, replacements, result>>
  /\ UNCHANGED taskVars
  /\ UNCHANGED <<sessionVars, putVars>>

\* applyTextEdits(source, batch) for a batch the editor sends; line 324
\* reads the fields of the stored source from scanned
Apply ==
  /\ pc \in {"fetched", "changed"}
  /\ \E batch \in Batches(fields) \cup {NoOpBatch(fields)} :
       LET run == ApplyToFields(scanned, source, batch)
       IN  /\ edits' = batch
           /\ replacements' = run.replacements
           /\ result' = run.result
  /\ pc' = "applied"
  /\ UNCHANGED <<source, scanned, extracted, fields>>
  /\ UNCHANGED <<sectionCounters, taskVars>>
  /\ UNCHANGED <<sessionVars, putVars>>

Next == Extract \/ InsertBefore \/ Apply

Spec == Init /\ [][Next]_vars

\* ------------------------------------------------------------------------
\* The pages put together from parts, and their extraction
\* ------------------------------------------------------------------------

ScanInit ==
  /\ \E src \in Pages : Stored(src)
  /\ NoCalls
  /\ NoSession
  /\ NoRequests

ScanNext == Extract

ScanSpec == ScanInit /\ [][ScanNext]_vars

\* ------------------------------------------------------------------------
\* The calls of several requests in one process.  A call runs until its
\* next `await` and is resumed when what it awaits has resolved; between
\* two resumptions of one call the other task may run.
\* ------------------------------------------------------------------------

\* how many calls the tasks make in all
MaxCalls == 3

\* the sources of the requests
DocTwoSections == FragSection \o FragNested
TaskDocs == {DocSections, DocTwoSections, DocHeading}

\* the batch a request sends for the page src: a new value for every field
ChangeAll(fs) ==
  [k \in 1..Len(fs) |-> [id |-> fs[k].id, oldValue |-> fs[k].value,
                         value |-> NewValue(k)]]

\* the batches of the requests, by source
TaskBatch == [src \in TaskDocs |-> ChangeAll(extractTextFields(src))]

TaskInit ==
  /\ NoPage
  /\ sectionCounters = EmptyMap
  /\ NoCalls
  /\ NoSession
  /\ NoRequests

\* a task calls extractTextFields(src): the call runs up to the `await` of
\* line 115
CallExtract(t) ==
  /\ tasks[t].pc \in {"idle", "done"}
  /\ made < MaxCalls
  /\ \E src \in TaskDocs :
       tasks' = [tasks EXCEPT ![t] =
                   [pc |-> "parse", kind |-> "extract", source |-> src,
                    edits |-> <<>>, fields |-> <<>>, result |-> <<>>]]
  /\ made' = made + 1
  /\ UNCHANGED <<sectionCounters, returned, pageVars>>
  /\ UNCHANGED <<sessionVars, putVars>>

\* a task calls applyTextEdits(src, edits): the call runs up to the `await`
\* of line 324, and the extractTextFields it calls up to that of line 115
CallApply(t) ==
  /\ tasks[t].pc \in {"idle", "done"}
  /\ made < MaxCalls
  /\ \E src \in TaskDocs :
       tasks' = [tasks EXCEPT ![t] =
                   [pc |-> "parse", kind |-> "apply", source |-> src,
                    edits |-> TaskBatch[src], fields |-> <<>>, result |-> <<>>]]
  /\ made' = made + 1
  /\ UNCHANGED <<sectionCounters, returned, pageVars>>
  /\ UNCHANGED <<sessionVars, putVars>>

\* parse has resolved: extractTextFields runs from line 115 to its return
ExtractResumes(t) ==
  /\ tasks[t].pc = "parse"
  /\ \E run \in {RunExtract(tasks[t].source)} :
       /\ tasks' = [tasks EXCEPT
                      ![t].fields = run.fields,
                      ![t].pc = IF tasks[t].kind = "extract" THEN "done" ELSE "fields",
                      ![t].result = IF tasks[t].kind = "extract" THEN run.fields
                                    ELSE <<>>]
       /\ returned' = Append(returned, [source |-> tasks[t].source,
                                        fields |-> run.fields])
       /\ sectionCounters' = run.sectionCounters
  /\ UNCHANGED <<made, pageVars>>
  /\ UNCHANGED <<sessionVars, putVars>>

\* the fields another call holds
FieldsOfOtherCall(ts, t) == ts[CHOOSE u \in Tasks : u # t].fields

\* line 324: the fields applyTextEdits awaited are those of its own call
AwaitedFields(ts, t) == ts[t].fields

\* extractTextFields has resolved: applyTextEdits runs from line 324 to its
\* return
ApplyResumes(t) ==
  /\ tasks[t].pc = "fields"
  /\ tasks' = [tasks EXCEPT
                 ![t].pc = "done",
                 ![t].result = ApplyToFields(AwaitedFields(tasks, t), tasks[t].source,
                                             tasks[t].edits).result]
  /\ UNCHANGED <<sectionCounters, returned, made, pageVars>>
  /\ UNCHANGED <<sessionVars, putVars>>

TaskNext ==
  \E t \in Tasks :
    CallExtract(t) \/ CallApply(t) \/ ExtractResumes(t) \/ ApplyResumes(t)

TaskSpec == TaskInit /\ [][TaskNext]_vars

\* the stored fields are those of the stored source
ScannedIsFresh == scanned = extractTextFields(source)

\* ------------------------------------------------------------------------
\* Properties
\* ------------------------------------------------------------------------

\* the nodes of the AST of a source, in document order
NodesOf(src) ==
  With(visit(parse(src), NoParent, FALSE, -1),
       LAMBDA calls : [r \in 1..Len(calls) |-> calls[r].node])

\* does every field of fs hold exactly the bytes of its span in src
ByteExact(fs, src) ==
  With(encode(src), LAMBDA b :
    \A k \in 1..Len(fs) :
      /\ decode(slice(b, fs[k].offset, fs[k].offset + fs[k].length)) = fs[k].value
      /\ fs[k].length = Len(encode(fs[k].value)))

\* C1: for every field extractTextFields returns for a source, decoding the
\* bytes of the source at [offset, offset + length) gives the field's value,
\* and length is the UTF-8 byte length of the value
C1_ByteExactness ==
  pc \in {"fetched", "changed"} => ByteExact(scanned, source)

\* C1: a text field with a multi-byte character inside it and another
\* before it has been extracted
C1_Witness ==
  /\ pc = "fetched"
  /\ \E k \in 1..Len(fields) :
       /\ fields[k].kind = "text"
       /\ fields[k].length > JsLength(fields[k].value)
       /\ \E p \in 1..fields[k].offset : encode(source)[p] >= 128

C3_StaleEditResolved ==
  \A k \in 1..Len(fields) :
    (/\ pc = "applied"
     /\ source # extracted
     /\ fields[k].offset >= InsertDistance
     /\ source = spliceBytes(extracted, fields[k].offset - InsertDistance, 0,
                             InsertedText)
     /\ edits = <<[id |-> fields[k].id, oldValue |-> fields[k].value,
                   value |-> NewValue(k)]>>
     /\ MatchAt(encode(source), encode(fields[k].value),
                fields[k].offset + Len(encode(InsertedText))))
      => result = spliceBytes(source, fields[k].offset + Len(encode(InsertedText)),
                              fields[k].length, NewValue(k))

\* the indexes of the fields of fs that the edits es name
NamedFields(fs, es) ==
  {k \in 1..Len(fs) : \E i \in 1..Len(es) : es[i].id = fs[k].id}

\* byte offset p of the source lies in the span of no field of fs in named
Outside(fs, named, p) ==
  \A k \in named : ~(fs[k].offset <= p /\ p < fs[k].offset + fs[k].length)

\* an empty field of fs in named sits at byte offset p
PointAt(fs, named, p) ==
  \E k \in named : fs[k].length = 0 /\ fs[k].offset = p

\* the maximal runs of bytes of b outside the named spans, in order
Gaps(b, fs, named) ==
  With(SelectSeq([p \in 1..Len(b) |-> p - 1], LAMBDA p :
         /\ Outside(fs, named, p)
         /\ (p = 0 \/ ~Outside(fs, named, p - 1) \/ PointAt(fs, named, p))),
       LAMBDA starts :
         [s \in 1..Len(starts) |->
            slice(b, starts[s],
                  FirstFrom(LAMBDA q : ~Outside(fs, named, q) \/ PointAt(fs, named, q),
                            starts[s] + 1, Len(b), 8))])

RECURSIVE GapsInOrder(_, _, _, _, _, _)
\* do the gaps from the i-th on occur in rb from pos on, one after the
\* other, the first at the very start if atStart and the last at the very
\* end if atEnd
GapsInOrder(rb, gaps, i, pos, atStart, atEnd) ==
  IF i > Len(gaps) THEN TRUE
  ELSE With(IF i = 1 /\ atStart
              THEN (IF MatchAt(rb, gaps[i], 0) THEN 0 ELSE -1)
            ELSE IF i = Len(gaps) /\ atEnd
              THEN (IF Len(rb) - Len(gaps[i]) >= pos
                       /\ MatchAt(rb, gaps[i], Len(rb) - Len(gaps[i]))
                      THEN Len(rb) - Len(gaps[i]) ELSE -1)
            ELSE indexOfFrom(rb, gaps[i], pos),
            LAMBDA at :
              /\ at # -1
              /\ (i = 1 /\ atStart /\ i = Len(gaps) /\ atEnd) => Len(rb) = Len(gaps[i])
              /\ GapsInOrder(rb, gaps, i + 1, at + Len(gaps[i]), atStart, atEnd))

\* every byte of src outside the named spans is in res, unchanged and in the
\* same order
OutsideKept(src, res, fs, named) ==
  With(encode(src), LAMBDA b :
    GapsInOrder(encode(res), Gaps(b, fs, named), 1, 0,
                Len(b) > 0 /\ Outside(fs, named, 0) /\ ~PointAt(fs, named, 0),
                Len(b) > 0 /\ Outside(fs, named, Len(b) - 1)
                  /\ ~PointAt(fs, named, Len(b))))

\* C4: every byte of the source outside the spans of the fields the edits
\* name appears in the result unchanged and in the same order
C4_OnlyNamedSpansChange ==
  pc = "applied" => OutsideKept(source, result, scanned, NamedFields(scanned, edits))

\* the edit e is one applyTextEdits cannot resolve against the fields fs of
\* the source with bytes sb: no field has its id; or its oldValue is empty
\* and the field it names is not; or its oldValue is neither at the offset
\* of the field it names nor within FALLBACK_WINDOW bytes of it
Unresolvable(fs, sb, e) ==
  \/ \A k \in 1..Len(fs) : fs[k].id # e.id
  \/ \E k \in 1..Len(fs) :
       /\ fs[k].id = e.id
       /\ \A j \in 1..(k - 1) : fs[j].id # e.id
       /\ IF e.oldValue = <<>> THEN fs[k].length # 0
          ELSE /\ decode(slice(sb, fs[k].offset,
                               fs[k].offset + Len(encode(e.oldValue)))) # e.oldValue
               /\ indexOf(decode(slice(sb,
                                       IF fs[k].offset > FALLBACK_WINDOW
                                         THEN fs[k].offset - FALLBACK_WINDOW ELSE 0,
                                       fs[k].offset + Len(encode(e.oldValue))
                                         + FALLBACK_WINDOW)),
                          e.oldValue) = -1

\* the sequence s without its i-th element
Without(s, i) == SubSeq(s, 1, i - 1) \o SubSeq(s, i + 1, Len(s))

\* C5: when an edit of the batch cannot be resolved, applyTextEdits returns
\* what it returns for the batch without that edit
C5_DroppingIsIndependent ==
  pc = "applied" =>
    With(encode(source), LAMBDA sb :
      \A i \in 1..Len(edits) :
        Unresolvable(scanned, sb, edits[i])
          => ApplyToFields(scanned, source, Without(edits, i)).result = result)

\* C5: a batch whose first edit is unresolvable and whose second edit is
\* applied has been applied
C5_Witness ==
  /\ pc = "applied"
  /\ Len(edits) = 2
  /\ edits[1].id # UnknownId
  /\ edits[1].oldValue # <<>>
  /\ Unresolvable(scanned, encode(source), edits[1])
  /\ ~Unresolvable(scanned, encode(source), edits[2])
  /\ Len(replacements) = 1
  /\ result # source

\* C6: when every edit of the batch is unresolvable, applyTextEdits returns
\* the source unchanged
C6_AllUnresolvableReturnsSource ==
  pc = "applied" =>
    With(encode(source), LAMBDA sb :
      (\A i \in 1..Len(edits) : Unresolvable(scanned, sb, edits[i]))
        => (replacements = <<>> /\ result = source))

\* C6: a batch of an edit with an unknown id and an edit with an empty
\* oldValue for a non-empty field has been applied
C6_Witness ==
  /\ pc = "applied"
  /\ Len(edits) = 2
  /\ edits[1].id = UnknownId
  /\ edits[2].oldValue = <<>>
  /\ FindField(scanned, edits[2].id) # 0
  /\ scanned[FindField(scanned, edits[2].id)].length > 0
  /\ result = source

\* the insertion an edit with an empty oldValue asks for at field f
InsertionAt(f, e) == [offset |-> f.offset, length |-> 0, newValue |-> e.value]

ContentTags ==
  {Str(n) : n \in {"h1", "h2", "h3", "h4", "h5", "h6", "p", "a", "button",
                   "label", "span", "li", "td", "th", "figcaption",
                   "blockquote", "dt", "dd"}}

SkipTags == {Str(n) : n \in {"script", "style", "head", "code", "pre"}}

ElementAttrNames ==
  {Str(n) : n \in {"alt", "title", "placeholder", "aria-label", "aria-description"}}

ComponentPropNames ==
  {Str(n) : n \in {"title", "subtitle", "heading", "description", "label",
                   "text", "cta", "alt", "placeholder"}}

ImgAltLabel == Str("img alt")
ACat == Str("A cat")

\* the node opens a skip region
OpensSkipRegion(n) ==
  IsExpression(n) \/ IsFrontmatter(n) \/ (IsElement(n) /\ n.name \in SkipTags)

\* the node n is, or lies inside, a node of nodes that opens a skip region
InSkipRegion(nodes, n) ==
  \E s \in 1..Len(nodes) :
    /\ OpensSkipRegion(nodes[s])
    /\ nodes[s].start <= n.start
    /\ n.end <= nodes[s].end

\* the field is the phantom field of the element n
IsPhantomOf(f, n) ==
  /\ f.kind = "text"
  /\ f.value = <<>>
  /\ f.length = 0
  /\ f.label = n.name \o TextLabelSuffix
  /\ f.offset = n.openEnd

\* what C8 states for the fields fs of the source with the nodes `nodes`
PhantomRule(fs, nodes) ==
  \A r \in 1..Len(nodes) :
    IsElement(nodes[r]) =>
      IF /\ nodes[r].name \in ContentTags
         /\ nodes[r].children = <<>>
         /\ ~InSkipRegion(nodes, nodes[r])
        THEN /\ \E k \in 1..Len(fs) : IsPhantomOf(fs[k], nodes[r])
             /\ Cardinality({k \in 1..Len(fs) :
                               fs[k].kind = "text"
                                 /\ fs[k].offset = nodes[r].openEnd}) = 1
        ELSE ~\E k \in 1..Len(fs) : IsPhantomOf(fs[k], nodes[r])

\* C8: every content-bearing element outside every skip region and with no
\* children gets exactly one text field, with value "", length 0, the label
\* "<tag> text" and the offset right after the `>` of its opening tag; no
\* other element gets one; `<h2></h2>` yields exactly one field
C8_PhantomForEveryEmptyContentElement ==
  pc = "fetched" =>
    /\ PhantomRule(fields, NodesOf(source))
    /\ source = DocHeading => Len(fields) = 1

\* the field f starts inside the node n
StartsInside(f, n) ==
  IF f.length = 0 THEN n.start < f.offset /\ f.offset < n.end
  ELSE n.start <= f.offset /\ f.offset < n.end

\* what C9 states for the fields fs of the source with the nodes `nodes`
NoFieldInSkipRegion(fs, nodes) ==
  \A s \in 1..Len(nodes) :
    OpensSkipRegion(nodes[s]) =>
      \A k \in 1..Len(fs) : ~StartsInside(fs[k], nodes[s])

\* C9: no field comes from a node that is, or is a descendant at any depth
\* of, an expression, the frontmatter or a script, style, head, code or pre
\* element
C9_NoFieldFromSkipRegion ==
  pc \in {"fetched", "changed"} => NoFieldInSkipRegion(scanned, NodesOf(source))

\* C9: the fields of a source have been extracted that has text, an
\* attribute and an empty content element inside skip regions (frontmatter,
\* pre, code, an expression, style) and a field outside them
C9_Witness ==
  /\ pc = "fetched"
  /\ fields # <<>>
  /\ \E s \in 1..Len(NodesOf(source)), d \in 1..Len(NodesOf(source)) :
       /\ IsElement(NodesOf(source)[s])
       /\ NodesOf(source)[s].name \in SkipTags
       /\ IsElement(NodesOf(source)[d])
       /\ NodesOf(source)[d].name \in ContentTags
       /\ NodesOf(source)[d].children = <<>>
       /\ NodesOf(source)[s].start < NodesOf(source)[d].start
       /\ NodesOf(source)[d].end < NodesOf(source)[s].end
  /\ \E s \in 1..Len(NodesOf(source)) : IsExpression(NodesOf(source)[s])
  /\ \E s \in 1..Len(NodesOf(source)) : IsFrontmatter(NodesOf(source)[s])

\* the attribute field f comes from attribute a of node n, and a passes the
\* filter: quoted, its name in the allow-list of the node's kind, at least
\* MIN_ATTR_LENGTH code units once trimmed
ComesFromContentAttr(f, n, a) ==
  /\ IsElement(n) \/ IsComponent(n)
  /\ a.kind = "quoted"
  /\ a.name \in (IF IsComponent(n) THEN ComponentPropNames ELSE ElementAttrNames)
  /\ JsLength(trim(a.value)) >= 2
  /\ f.value = a.value
  /\ f.label = n.name \o Blank \o a.name
  /\ n.start < f.offset
  /\ f.offset + f.length < n.openEnd

\* what C10 states for the fields fs of the source with the nodes `nodes`
AttrRule(fs, nodes) ==
  \A k \in 1..Len(fs) :
    fs[k].kind = "attribute" =>
      \E r \in 1..Len(nodes) :
        \E a \in 1..Len(nodes[r].attributes) :
          ComesFromContentAttr(fs[k], nodes[r], nodes[r].attributes[a])

\* C10: an attribute field comes only from an attribute with a quoted
\* value, a name in the allow-list of its node kind and a trimmed value of
\* at least 2 characters; `<img alt="A cat" src={dynamicUrl} />` yields
\* exactly one field, alt with the value "A cat"
C10_AttributeFiltering ==
  pc = "fetched" =>
    /\ AttrRule(fields, NodesOf(source))
    /\ source = DocImage =>
         /\ Len(fields) = 1
         /\ fields[1].kind = "attribute"
         /\ fields[1].label = ImgAltLabel
         /\ fields[1].value = ACat

\* C10: the attribute fields of a source have been extracted whose tags
\* have content attributes with long and short values, other attributes
\* and an expression attribute with an allow-listed name
C10_Witness ==
  /\ pc = "fetched"
  /\ Cardinality({k \in 1..Len(fields) : fields[k].kind = "attribute"}) = 2
  /\ \E r \in 1..Len(NodesOf(source)) :
       \E a \in 1..Len(NodesOf(source)[r].attributes) :
         /\ IsComponent(NodesOf(source)[r])
         /\ NodesOf(source)[r].attributes[a].kind = "expression"
         /\ NodesOf(source)[r].attributes[a].name \in ComponentPropNames

\* ------------------------------------------------------------------------
\* Properties of the extraction: white space, groups
\* ------------------------------------------------------------------------

\* the calls of the walk over the AST of a source: every node with its parent
WalkOf(src) == visit(parse(src), NoParent, FALSE, -1)

HiText == Str("Hi")

\* the fields of fs that the text node n yielded
FieldsOfText(fs, n) ==
  {k \in 1..Len(fs) :
     fs[k].kind = "text" /\ fs[k].length > 0 /\ fs[k].offset = n.start}

\* the text node's parent is a content-bearing element none of whose
\* children is an element, a component or an expression
AloneInContentElement(parent) ==
  /\ parent.type = "element"
  /\ parent.name \in ContentTags
  /\ \A c \in 1..Len(parent.children) :
       parent.children[c].type \notin {"element", "component", "expression"}

\* what C11 states for the fields fs of the source whose walk made the
\* calls `walk`
WhitespaceRule(fs, walk) ==
  \A r \in 1..Len(walk) :
    (walk[r].node.type = "text" /\ IsBlank(walk[r].node.value)) =>
      IF /\ AloneInContentElement(walk[r].parent)
         /\ ~InSkipRegion([q \in 1..Len(walk) |-> walk[q].node], walk[r].node)
        THEN \E k \in FieldsOfText(fs, walk[r].node) :
               fs[k].value = walk[r].node.value
        ELSE FieldsOfText(fs, walk[r].node) = {}

\* C11: a whitespace-only text node yields a field when its parent is a
\* content-bearing element with no element, component or expression among
\* its children (and it is outside every skip region), and yields none in
\* every other case; the page of a <div> holding an indented <p>Hi</p>
\* yields the one field "Hi"
C11_WhitespaceSuppression ==
  pc = "fetched" =>
    /\ WhitespaceRule(fields, WalkOf(source))
    /\ source = DocIndent => (Len(fields) = 1 /\ fields[1].value = HiText)

\* C11: the fields of a page have been extracted that has a whitespace-only
\* text node that became a field and one, beside an element, that did not
C11_Witness ==
  /\ pc = "fetched"
  /\ \E k \in 1..Len(fields) :
       fields[k].kind = "text" /\ fields[k].length > 0 /\ IsBlank(fields[k].value)
  /\ \E r \in 1..Len(WalkOf(source)) :
       /\ WalkOf(source)[r].node.type = "text"
       /\ IsBlank(WalkOf(source)[r].node.value)
       /\ WalkOf(source)[r].parent.type = "element"
       /\ WalkOf(source)[r].parent.name \in ContentTags
       /\ FieldsOfText(fields, WalkOf(source)[r].node) = {}

LandmarkTags ==
  {Str(n) : n \in {"header", "section", "footer", "nav", "main", "article", "aside"}}

SectionId == Str("section")
SecondSectionId == Str("section:2")
NavId == Str("nav")
ColonText == Str(":")

IsLandmark(n) == n.type = "element" /\ n.name \in LandmarkTags

\* the landmark elements of nodes that enclose the byte offset p
Enclosing(nodes, p) ==
  {s \in 1..Len(nodes) :
     IsLandmark(nodes[s]) /\ nodes[s].start < p /\ p < nodes[s].end}

\* the id of the landmark element nodes[s]: nodes is in traversal order
LandmarkId(nodes, s) ==
  With(Cardinality({i \in 1..s :
                      IsLandmark(nodes[i]) /\ nodes[i].name = nodes[s].name}),
       LAMBDA nth : IF nth = 1 THEN nodes[s].name
                    ELSE nodes[s].name \o ColonText \o NumStr(nth))

\* what C12 states for the fields fs of the source with the nodes `nodes`
GroupRule(fs, nodes) ==
  \A k \in 1..Len(fs) :
    With(Enclosing(nodes, fs[k].offset), LAMBDA around :
      fs[k].group = IF around = {} THEN <<>>
                    ELSE LandmarkId(nodes, Max(around)))

\* C12: the group of every field is the id of the nearest landmark element
\* around it, or "" when there is none; the id of the Nth landmark element
\* of a tag name in traversal order is the name for N = 1 and "name:N" for
\* N >= 2; of two <section> elements the fields of the first carry
\* "section" and those of the second "section:2"
C12_Grouping ==
  pc = "fetched" =>
    /\ GroupRule(fields, NodesOf(source))
    /\ source = FragSection \o FragSection =>
         /\ Len(fields) = 2
         /\ fields[1].group = SectionId
         /\ fields[2].group = SecondSectionId

\* C12: the fields of a page of two <section> elements have been extracted
\* whose second one holds a <nav>: a field of the first section, then a
\* field of the second before the nav, fields of the nav and a field of the
\* second section after it
C12_Witness ==
  /\ pc = "fetched"
  /\ \E k \in 1..Len(fields), j \in 1..Len(fields), m \in 1..Len(fields) :
       /\ k < j /\ j < m
       /\ fields[k].group = SecondSectionId
       /\ fields[j].group = NavId
       /\ fields[m].group = SecondSectionId
  /\ fields[1].group = SectionId

\* ------------------------------------------------------------------------
\* Properties of the calls in one process
\* ------------------------------------------------------------------------

\* C13: any two extractTextFields calls on the same source returned the
\* same list of fields (ids, offsets, lengths, values, labels, groups, in
\* the same order), whatever calls ran before or between them
C13_Determinism ==
  \A i \in 1..Len(returned), j \in 1..Len(returned) :
    returned[i].source = returned[j].source
      => returned[i].fields = returned[j].fields

\* C13: a source with two <section> elements has been extracted twice, with
\* the extraction of another source in between
C13_Witness ==
  /\ Len(returned) = 3
  /\ returned[1].source = returned[3].source
  /\ returned[2].source # returned[1].source
  /\ \E k \in 1..Len(returned[1].fields) :
       returned[1].fields[k].group = SecondSectionId
  /\ \E k \in 1..Len(returned[2].fields) : returned[2].fields[k].group = NavId

\* what the call of a task returns when no other call runs
ResultAlone(task) ==
  IF task.kind = "extract" THEN extractTextFields(task.source)
  ELSE applyTextEdits(task.source, task.edits)

\* C14: however the calls of the two tasks interleave at their suspension
\* points, a call that has returned has returned what it returns when run
\* alone, and the field list a suspended applyTextEdits call holds is the
\* one its own extraction made
C14_ConcurrentIndependence ==
  \A t \in Tasks :
    /\ tasks[t].pc = "done" => tasks[t].result = ResultAlone(tasks[t])
    /\ tasks[t].pc = "fields" => tasks[t].fields = extractTextFields(tasks[t].source)

\* C14: while the applyTextEdits call of one task was suspended at line 324,
\* holding its fields, the other task extracted another source with
\* landmark elements and returned
C14_Witness ==
  \E t \in Tasks, u \in Tasks :
    /\ t # u
    /\ tasks[t].pc = "fields"
    /\ tasks[t].kind = "apply"
    /\ tasks[u].pc = "done"
    /\ tasks[u].kind = "extract"
    /\ tasks[u].source # tasks[t].source
    /\ Len(returned) = 2
    /\ returned[1].source = tasks[t].source
    /\ returned[2].source = tasks[u].source
    /\ \E k \in 1..Len(tasks[u].result) : tasks[u].result[k].group = SecondSectionId
    /\ \E k \in 1..Len(tasks[t].fields) : tasks[t].fields[k].group = NavId

\* ------------------------------------------------------------------------
\* Properties of the fields and of the replacements
\* ------------------------------------------------------------------------

\* is the value longer than 80 UTF-16 code units, or does it hold a newline
LongOrLines(value) == Len(value) > 80 \/ \E i \in 1..Len(value) : value[i] = 10

\* C15: for every field, of either kind, multiline is true exactly when the
\* value is longer than 80 characters (UTF-16 code units) or holds a newline
C15_MultilineRule ==
  pc = "fetched" =>
    \A k \in 1..Len(fields) :
      fields[k].multiline = LongOrLines(fields[k].value)

\* C15, kind by kind: a text field is multiline exactly when its value is longer
\* than 80 characters or holds a newline; an attribute field never is
C15_MultilineByKind ==
  pc = "fetched" =>
    \A k \in 1..Len(fields) :
      fields[k].multiline = (fields[k].kind = "text" /\ LongOrLines(fields[k].value))

\* an attribute value of more than 80 characters that is not multiline, next
\* to a text of fewer than 80 characters that is, for its newline
C15_Witness ==
  /\ pc = "fetched"
  /\ \E k \in 1..Len(fields) :
       /\ fields[k].kind = "attribute"
       /\ Len(fields[k].value) > 80
       /\ ~fields[k].multiline
  /\ \E k \in 1..Len(fields) :
       /\ fields[k].kind = "text"
       /\ Len(fields[k].value) < 80
       /\ fields[k].multiline

\* do the byte ranges [offset, offset + length) of a and b share a byte
Overlap(a, b) ==
  a.offset < b.offset + b.length /\ b.offset < a.offset + a.length

\* C16: the byte ranges of the replacements one applyTextEdits call
\* schedules are pairwise non-overlapping
C16_ReplacementsDisjoint ==
  pc = "applied" =>
    \A i \in 1..Len(replacements), j \in 1..Len(replacements) :
      i # j => ~Overlap(replacements[i], replacements[j])

\* C17: the byte spans of any two distinct fields of one extraction are
\* disjoint: no two fields start at the same offset and no span holds a
\* byte of another
C17_FieldSpansDisjoint ==
  pc = "fetched" =>
    \A k \in 1..Len(fields), j \in 1..Len(fields) :
      k # j => (fields[k].offset # fields[j].offset /\ ~Overlap(fields[k], fields[j]))

\* the byte offset right after the opening quote of the quoted attribute a
ValueStart(a) == a.start + Len(encode(a.name)) + 2

\* C18: the offset of every attribute field is the byte offset right after
\* the opening quote of the attribute its id names, in the opening tag of
\* the element or component it was extracted from
C18_AttrOffsetIsOwnValue ==
  pc = "fetched" =>
    \A k \in 1..Len(fields) :
      fields[k].kind = "attribute" =>
        \E r \in 1..Len(NodesOf(source)) :
          \E a \in 1..Len(NodesOf(source)[r].attributes) :
            /\ NodesOf(source)[r].type \in {"element", "component"}
            /\ fields[k].label = NodesOf(source)[r].name \o Blank
                                   \o NodesOf(source)[r].attributes[a].name
            /\ NodesOf(source)[r].attributes[a].kind = "quoted"
            /\ NodesOf(source)[r].attributes[a].name = fields[k].id.name
            /\ fields[k].offset = ValueStart(NodesOf(source)[r].attributes[a])

\* C19: every replacement scheduled for an edit with a non-empty oldValue
\* covers bytes of the source that decode to that oldValue
C19_ReplacementCoversOldValue ==
  pc = "applied" =>
    \A r \in 1..Len(replacements) :
      replacements[r].length > 0 =>
        \E i \in 1..Len(edits) :
          /\ edits[i].value = replacements[r].newValue
          /\ edits[i].oldValue # <<>>
          /\ decode(slice(encode(source), replacements[r].offset,
                          replacements[r].offset + replacements[r].length))
               = edits[i].oldValue

\* the bytes of b with all the ranges of reps replaced at once: at every
\* offset the new values of the replacements that start there, then the
\* byte at the offset unless a range holds it
Simultaneous(b, reps) ==
  Flatten([p \in 1..(Len(b) + 1) |->
             Flatten([r \in 1..Len(reps) |->
                        IF reps[r].offset = p - 1 THEN encode(reps[r].newValue)
                        ELSE <<>>])
               \o (IF p <= Len(b)
                      /\ \A r \in 1..Len(reps) :
                           ~(reps[r].offset <= p - 1
                               /\ p - 1 < reps[r].offset + reps[r].length)
                     THEN <<b[p]>> ELSE <<>>)])

\* C20: splicing the scheduled replacements one at a time in descending
\* offset order gives the text that replacing all the scheduled ranges at
\* once, at their offsets in the original source, gives
C20_SequentialIsSimultaneous ==
  pc = "applied" => encode(result) = Simultaneous(encode(source), replacements)

\* ------------------------------------------------------------------------
\* The fallback search, the ids and the order of the fields
\* ------------------------------------------------------------------------

\* the byte offsets at which the bytes of old occur in sourceBytes
Occurrences(sourceBytes, old) ==
  {o \in 0..(Len(sourceBytes) - Len(old)) :
     slice(sourceBytes, o, o + Len(old)) = old}

\* the occurrences of old that start at most 200 bytes before or after offset
Nearby(sourceBytes, old, offset) ==
  {o \in Occurrences(sourceBytes, old) : o >= offset - 200 /\ o <= offset + 200}

\* the edit names field k of the stored page and its oldValue, not empty,
\* is not what the bytes at the field's offset hold
NeedsSearch(edit, k) ==
  /\ k = FindField(scanned, edit.id)
  /\ k # 0
  /\ edit.oldValue # <<>>
  /\ slice(encode(source), scanned[k].offset,
           scanned[k].offset + Len(encode(edit.oldValue))) # encode(edit.oldValue)

\* the search window of field k starts inside a multi-byte character
WindowCutsCharacter(k) ==
  /\ scanned[k].offset > 200
  /\ IsCont(encode(source)[scanned[k].offset - 200 + 1])

C24_IdsAreDistinct ==
  pc = "fetched" =>
    \A k \in 1..Len(fields), j \in 1..Len(fields) :
      k # j => fields[k].id # fields[j].id

\* C30: the fields are listed in traversal order, so the text fields of the
\* list are in strictly ascending order of their byte offsets
C30_TextFieldsAscend ==
  pc = "fetched" =>
    \A k, j \in 1..Len(fields) :
      (k < j /\ fields[k].kind = "text" /\ fields[j].kind = "text")
        => fields[k].offset < fields[j].offset

\* the edits of a batch name pairwise distinct field ids
DistinctIds(batch) ==
  \A i, j \in 1..Len(batch) : i # j => batch[i].id # batch[j].id

\* the batch listed from its last edit to its first
Reversed(batch) == [i \in 1..Len(batch) |-> batch[Len(batch) + 1 - i]]

\* C27: for a batch whose edits name pairwise distinct field ids, the text
\* applyTextEdits returns does not depend on the order of the edits
C27_OrderIndependent ==
  (pc = "applied" /\ DistinctIds(edits)) =>
    ApplyToFields(scanned, source, Reversed(edits)).result = result

\* the offsets where a tag opens: a `<` followed by a letter
TagStarts(sourceBytes) ==
  {s \in 0..(Len(sourceBytes) - 2) :
     /\ sourceBytes[s + 1] = ByteLt
     /\ \/ (sourceBytes[s + 2] >= 65 /\ sourceBytes[s + 2] <= 90)
        \/ (sourceBytes[s + 2] >= 97 /\ sourceBytes[s + 2] <= 122)}

\* the indexes after i where the quote opened at index i of w is closed
Closers(w, i) == {j \in (i + 1)..(Len(w) - 1) : w[j + 1] = w[i + 1]}

RECURSIVE FirstOpenGt(_, _, _)
\* the index of the first `>` of the bytes w, from index i on, that is
\* outside a quoted string and at brace depth 0, read byte by byte (a
\* quoted string as a whole, up to the next byte equal to the one that opened
\* it); -1 when there is none
FirstOpenGt(w, i, depth) ==
  IF i >= Len(w) THEN -1
  ELSE IF w[i + 1] \in {ByteDq, ByteSq}
    THEN IF Closers(w, i) = {} THEN -1
         ELSE FirstOpenGt(w, Min(Closers(w, i)) + 1, depth)
  ELSE IF w[i + 1] = ByteLbrace THEN FirstOpenGt(w, i + 1, depth + 1)
  ELSE IF w[i + 1] = ByteRbrace
    THEN FirstOpenGt(w, i + 1, IF depth > 0 THEN depth - 1 ELSE 0)
  ELSE IF w[i + 1] = ByteGt /\ depth = 0 THEN i
  ELSE FirstOpenGt(w, i + 1, depth)

\* the bytes of the window of the tag that starts at s
TagWindow(sourceBytes, s) ==
  slice(sourceBytes, s, Least(s + TAG_WINDOW, Len(sourceBytes)))

\* the byte offset after the first `>` of the window outside quotes and
\* braces, or -1 for null
ByteAfterOpenGt(sourceBytes, s) ==
  IF \A i \in 1..Len(TagWindow(sourceBytes, s)) : TagWindow(sourceBytes, s)[i] # ByteGt
    THEN -1
  ELSE With(FirstOpenGt(TagWindow(sourceBytes, s), 0, 0), LAMBDA q :
         IF q = -1 THEN -1 ELSE s + q + 1)

\* C29: findOpenTagEnd returns the byte offset after the first `>` of the
\* 2000-byte window that is outside every quoted string and every brace
\* region, counted in bytes, and null when the window has none
C29_OpenTagEnd ==
  \A s \in TagStarts(encode(source)) :
    findOpenTagEnd(encode(source), s) = ByteAfterOpenGt(encode(source), s)

\* a phantom field at the end of a tag that holds a multi-byte character and
\* a `>` in a quoted value and one in an expression
C29_Witness ==
  \E s \in TagStarts(encode(source)) :
    /\ pc = "fetched"
    /\ \E n \in 1..Len(fields) :
         fields[n].length = 0 /\ fields[n].offset = findOpenTagEnd(encode(source), s)
    /\ \E i, j, k \in (s + 1)..(findOpenTagEnd(encode(source), s) - 1) :
         /\ i < j /\ j < k
         /\ encode(source)[i] > 127
         /\ encode(source)[j] = ByteGt
         /\ encode(source)[k] = ByteGt

\* ------------------------------------------------------------------------
\* An editor session: PageEditor.svelte against GET and PUT of one page
\* ------------------------------------------------------------------------

\* the most PUT requests one session sends
MaxSaves == 2

\* the pages a session opens
SessionDocs ==
  {DocComment, DocHeading, DocSections, DocMultiByte, DocIndent, DocAttrs,
   DocSelfClosed, FragSelfClosed}

\* the plain texts the editor types into a field
TypedValues == {NewValue(1)}

SessionInit ==
  /\ \E src \in SessionDocs : Stored(src)
  /\ NoCalls
  /\ NoSession
  /\ NoRequests

\* GET (part_004 lines 16-34), then the component copies the fields it
\* is given (PageEditor.svelte line 16)
Load ==
  /\ pc = "start"
  /\ fields' = scanned
  /\ initialFields' = scanned
  /\ extracted' = source
  /\ pc' = "editing"
  /\ UNCHANGED <<source, scanned, edits, replacements, result>>
  /\ UNCHANGED <<sectionCounters, taskVars, saving, saves, answer, putVars>>

\* handleFieldInput(index, value), lines 130-133, also while a PUT is in
\* flight; the session types as long as it has a save left
handleFieldInput ==
  /\ pc \in {"editing", "saved"}
  /\ saves < MaxSaves
  /\ \E index \in 1..Len(fields), value \in TypedValues :
       /\ value # fields[index].value
       /\ fields' = [fields EXCEPT ![index].value = value]
  /\ pc' = "editing"
  /\ UNCHANGED <<source, scanned, extracted, edits, replacements, result>>
  /\ UNCHANGED <<sectionCounters, taskVars, sessionVars, putVars>>

\* lines 142-152: an edit for every field whose value is not the one of
\* initialFields
ChangedEdits(fs, initial) ==
  With(SelectSeq([i \in 1..Len(fs) |-> i],
                 LAMBDA i : fs[i].value # initial[i].value),
       LAMBDA changed :
         [n \in 1..Len(changed) |->
            [id |-> fs[changed[n]].id,
             oldValue |-> initial[changed[n]].value,
             value |-> fs[changed[n]].value]])

\* save(), lines 135-167, up to the `await fetch`: with no changed field it
\* returns at line 157 and sends nothing
save ==
  /\ pc \in {"editing", "saved"}
  /\ saving = <<>>
  /\ saves < MaxSaves
  /\ ChangedEdits(fields, initialFields) # <<>>
  /\ saving' = ChangedEdits(fields, initialFields)
  /\ saves' = saves + 1
  /\ pc' = "editing"
  /\ UNCHANGED <<source, scanned, extracted, fields, edits, replacements, result>>
  /\ UNCHANGED <<sectionCounters, taskVars, initialFields, answer, putVars>>

\* the PUT in flight is handled (part_004 lines 37-73: the edits are applied
\* to the stored source and the result is written) and its response
\* reaches save(), lines 168-178: initialFields becomes a copy of fields
SaveResponds ==
  /\ saving # <<>>
  /\ \E run \in {ApplyToFields(scanned, source, saving)} :
       /\ edits' = saving
       /\ replacements' = run.replacements
       /\ result' = run.result
       /\ source' = run.result
  /\ \E run \in {RunExtract(source')} :
       /\ scanned' = run.fields
       /\ sectionCounters' = run.sectionCounters
  /\ answer' = 200
  /\ initialFields' = fields
  /\ saving' = <<>>
  /\ pc' = "saved"
  /\ UNCHANGED <<extracted, fields, saves, taskVars, putVars>>

SessionNext == Load \/ handleFieldInput \/ save \/ SaveResponds

SessionSpec == SessionInit /\ [][SessionNext]_vars

\* the editor holds a value it typed for field k
Typed(k) == fields[k].value \in TypedValues

\* C22: after every save that was answered ok the stored page holds, for
\* every field the editor changed, the value the editor holds for it
C22_SavedSessionIsStored ==
  (pc = "saved" /\ answer = 200) =>
    /\ Len(scanned) = Len(fields)
    /\ \A k \in 1..Len(fields) : Typed(k) => scanned[k].value = fields[k].value

\* the first save of the session sent one edit, for the text field k, and no
\* other field has been touched
OneTextEdit(k) ==
  /\ pc = "saved"
  /\ saves = 1
  /\ Len(edits) = 1
  /\ k \in 1..Len(fields)
  /\ edits[1].id = fields[k].id
  /\ fields[k].kind = "text"
  /\ \A j \in 1..Len(fields) : j # k => ~Typed(j)

\* field j lies before field k: at a lower offset, or earlier in the list at
\* the same offset
LiesBefore(j, k) ==
  \/ fields[j].offset < fields[k].offset
  \/ (fields[j].offset = fields[k].offset /\ j < k)

\* where field j is after field k got the value v
Shifted(j, k, v) ==
  IF LiesBefore(j, k) THEN fields[j].offset
  ELSE fields[j].offset + Len(encode(v)) - fields[k].length

\* C25: after the edit {id: f.id, oldValue: f.value, value: v} for a text
\* field f, the fields of the result hold a text field at f.offset with value
\* v, and every other field of the source with its value, kind, label and
\* group, at its offset if it is before f and shifted by
\* byteLength(v) - f.length if it is after f
C25_EditThenExtract ==
  \A k \in 1..Len(fields) :
    OneTextEdit(k) =>
      /\ \E n \in 1..Len(scanned) :
           /\ scanned[n].kind = "text"
           /\ scanned[n].offset = fields[k].offset
           /\ scanned[n].value = edits[1].value
      /\ \A j \in 1..Len(fields) :
           j # k =>
             \E n \in 1..Len(scanned) :
               /\ scanned[n].value = fields[j].value
               /\ scanned[n].kind = fields[j].kind
               /\ scanned[n].label = fields[j].label
               /\ scanned[n].group = fields[j].group
               /\ scanned[n].offset = Shifted(j, k, edits[1].value)

\* the first save of the session sent one edit, the insertion of a value
\* into the phantom field k
OneInsertion(k) == OneTextEdit(k) /\ edits[1].oldValue = <<>> /\ fields[k].length = 0

\* C26: after the insertion of v into the phantom field p, the page has a
\* text field with value v and the label of p at p.offset and no phantom
\* field for that element, and the same edit applied again is dropped and
\* leaves the page as it is
C26_InsertedOnce ==
  \A k \in 1..Len(fields) :
    OneInsertion(k) =>
      /\ Len(scanned) = Len(fields)
      /\ scanned[k].kind = "text"
      /\ scanned[k].value = edits[1].value
      /\ scanned[k].offset = fields[k].offset
      /\ scanned[k].label = fields[k].label
      /\ \A j \in 1..Len(scanned) :
           scanned[j].length = 0 =>
             \/ scanned[j].offset < fields[k].offset
             \/ scanned[j].offset > fields[k].offset + Len(encode(edits[1].value))
      /\ ResolveEdit(scanned, encode(source), edits[1]) = <<>>
      /\ applyTextEdits(source, edits) = source

\* ------------------------------------------------------------------------
\* The PUT page-text handler over the GitHub adapter
\* ------------------------------------------------------------------------

\* the most PUT requests that arrive
MaxPuts == 2

\* getProjectFile gives null for a file that is not there
Absent == <<-1>>

DotAstro == Str(".astro")
DotDot == Str("..")

\* \w, and the other characters the class of line 11 allows
WordChars == (48..57) \cup (65..90) \cup (97..122) \cup {95}
PathChars == WordChars \cup {45, 46, 47}

\* path.replace(/\\/g, '/'), line 8
normalize(path) == [i \in 1..Len(path) |-> IF path[i] = 92 THEN 47 ELSE path[i]]

\* lines 9-12 for the normalized path: the path, or <<>> for null
CheckPagePath(normalized) ==
  IF Len(normalized) < Len(DotAstro) THEN <<>>
  ELSE IF sliceFrom(normalized, Len(normalized) - Len(DotAstro)) # DotAstro
    THEN <<>>
  ELSE IF indexOf(normalized, DotDot) # -1 THEN <<>>
  ELSE IF ~(/\ Len(normalized) > Len(DotAstro)
            /\ \A i \in 1..Len(normalized) : normalized[i] \in PathChars)
    THEN <<>>
  ELSE normalized

\* validatePagePath, lines 6-13: the normalized path, or <<>> for null
validatePagePath(path) ==
  IF path = <<>> THEN <<>> ELSE CheckPagePath(normalize(path))

IndexPage == Str("index.astro")

\* the paths requests come with
PutPaths ==
  {IndexPage, Str("blog") \o <<92>> \o Str("index.astro"), Str("../index.astro"),
   Str("index.md"), Str("a b.astro"), DotAstro, <<>>}

\* the page all valid paths of the requests name, and what it may hold
PutDoc == DocComment

\* a body with one edit, for the field of PutDoc at offset with value old
EditBody(offset, old) ==
  [json |-> TRUE, null |-> FALSE, array |-> TRUE,
   edits |-> <<[id |-> TextId(offset), oldValue |-> old,
                value |-> NewValue(offset)]>>]

FirstBody == EditBody(14, Str("Welcome"))
SecondBody == EditBody(28, Str("Hi"))

\* the bodies requests come with: text that is no JSON, the JSON null, a
\* JSON object whose edits is no array, one whose edits is the empty array,
\* and the two bodies with an edit
PutBodies ==
  {[json |-> FALSE, null |-> FALSE, array |-> FALSE, edits |-> <<>>],
   [json |-> TRUE, null |-> TRUE, array |-> FALSE, edits |-> <<>>],
   [json |-> TRUE, null |-> FALSE, array |-> FALSE, edits |-> <<>>],
   [json |-> TRUE, null |-> FALSE, array |-> TRUE, edits |-> <<>>],
   FirstBody, SecondBody}

\* the requests: every body with a good path, every path with a good body
PutRequests ==
  {[path |-> IndexPage, body |-> b] : b \in PutBodies}
    \cup {[path |-> p, body |-> FirstBody] : p \in PutPaths}

\* a handler that has no request
NoRequest ==
  [pc |-> "idle", path |-> <<>>, body |-> <<>>, source |-> <<>>,
   updated |-> <<>>, readAt |-> -1, latestCommitSha |-> -1, status |-> 0]

\* what the handler of a request that has not reached line 52 answers: 0
\* when it goes on to read the page
EarlyStatus(req) ==
  IF validatePagePath(req.path) = <<>> THEN 400      \* lines 38-41
  ELSE IF ~req.body.json THEN 400                    \* lines 44-46
  ELSE IF req.body.null THEN 500                     \* line 47 throws
  ELSE IF ~req.body.array \/ req.body.edits = <<>> THEN 400   \* lines 48-50
  ELSE 0

PutInit ==
  /\ \/ Stored(PutDoc)
     \/ /\ source \in {Absent, <<>>}
        /\ scanned = <<>>
        /\ sectionCounters = EmptyMap
        /\ pc = "start"
        /\ extracted = <<>>
        /\ fields = <<>>
        /\ edits = <<>>
        /\ replacements = <<>>
        /\ result = <<>>
  /\ NoCalls
  /\ NoSession
  /\ head = 0
  /\ requests = [t \in Tasks |-> NoRequest]

\* a request arrives and its handler runs lines 38-50
PutArrives(t) ==
  /\ requests[t].pc \in {"idle", "done"}
  /\ made < MaxPuts
  /\ \E req \in PutRequests :
       requests' = [requests EXCEPT ![t] =
                      [NoRequest EXCEPT
                         !.path = req.path, !.body = req.body,
                         !.status = EarlyStatus(req),
                         !.pc = IF EarlyStatus(req) = 0 THEN "read" ELSE "done"]]
  /\ made' = made + 1
  /\ UNCHANGED <<pageVars, sectionCounters, tasks, returned, sessionVars, head>>

\* adapter.getProjectFile(fullPath): the text the page has at the commit the
\* branch points at, or null
getProjectFile == source

\* lines 52-59: the page is read from the branch and the edits are applied
\* to what was read
PutReads(t) ==
  /\ requests[t].pc = "read"
  /\ requests' = [requests EXCEPT ![t] =
       IF getProjectFile = Absent \/ getProjectFile = <<>>
         THEN [@ EXCEPT !.pc = "done", !.status = 404]
       ELSE [@ EXCEPT !.pc = "write", !.source = getProjectFile, !.readAt = head,
                      !.updated = applyTextEdits(getProjectFile,
                                                 requests[t].body.edits)]]
  /\ UNCHANGED <<pageVars, sectionCounters, taskVars, sessionVars, head>>

\* commitFile lines 243-248: the commit the branch points at is fetched
GetRef(t) ==
  /\ requests[t].pc = "write"
  /\ requests' = [requests EXCEPT ![t].pc = "commit",
                                  ![t].latestCommitSha = head]
  /\ UNCHANGED <<pageVars, sectionCounters, taskVars, sessionVars, head>>

\* commitFile lines 250-318: a commit with the new text is made on top of
\* latestCommitSha and the branch is moved to it, which the host refuses
\* when the branch no longer points at latestCommitSha; then part_004
\* lines 63-72
UpdateRef(t) ==
  /\ requests[t].pc = "commit"
  /\ IF head = requests[t].latestCommitSha
       THEN /\ head' = head + 1
            /\ source' = requests[t].updated
            /\ \E run \in {RunExtract(source')} :
                 /\ scanned' = run.fields
                 /\ sectionCounters' = run.sectionCounters
            /\ requests' = [requests EXCEPT ![t].pc = "done", ![t].status = 200]
       ELSE /\ requests' = [requests EXCEPT ![t].pc = "done", ![t].status = 409]
            /\ UNCHANGED <<head, source, scanned, sectionCounters>>
  /\ UNCHANGED <<pc, extracted, fields, edits, replacements, result>>
  /\ UNCHANGED <<taskVars, sessionVars>>

PutNext ==
  \E t \in Tasks : PutArrives(t) \/ PutReads(t) \/ GetRef(t) \/ UpdateRef(t)

PutSpec == PutInit /\ [][PutNext]_vars

\* C23: a PUT that is answered ok made its commit on top of the commit at
\* which it had read the page: no other commit landed on the branch between
\* its read and its write
C23_ConcurrentWriteDetected ==
  \A t \in Tasks :
    (requests[t].pc = "done" /\ requests[t].status = 200) =>
      requests[t].readAt = requests[t].latestCommitSha

\* the path ends with .astro, holds no ".." and only word characters, "-",
\* "/" and "." (a backslash counting as "/")
PathValidates(path) ==
  /\ Len(path) >= 6
  /\ SubSeq(path, Len(path) - 5, Len(path)) = <<46, 97, 115, 116, 114, 111>>
  /\ \A i \in 1..Len(path) :
       /\ \/ path[i] \in {45, 46, 47, 92, 95}
          \/ (path[i] >= 48 /\ path[i] <= 57)
          \/ (path[i] >= 65 /\ path[i] <= 90)
          \/ (path[i] >= 97 /\ path[i] <= 122)
       /\ i < Len(path) => ~(path[i] = 46 /\ path[i + 1] = 46)

\* the body parses as JSON and its edits is a non-empty array
BodyHasEdits(body) == body.json /\ ~body.null /\ body.array /\ body.edits # <<>>

\* the handler of the request has called writeProjectFile
CalledWrite(r) == r.pc = "commit" \/ (r.pc = "done" /\ r.status \in {200, 409})

\* the answers of the handlers that are done: write is called only for a
\* valid path, a body with edits and a page that was there; a request
\* without these is answered 400, or 404 when only the page is not there
AnswersFit ==
  \A t \in Tasks :
    /\ CalledWrite(requests[t]) =>
         /\ PathValidates(requests[t].path)
         /\ BodyHasEdits(requests[t].body)
         /\ requests[t].source \notin {Absent, <<>>}
    /\ (requests[t].pc = "done" /\ ~PathValidates(requests[t].path)) =>
         requests[t].status = 400
    /\ (requests[t].pc = "done" /\ ~BodyHasEdits(requests[t].body)) =>
         requests[t].status = 400
    /\ (/\ requests[t].pc = "done"
        /\ validatePagePath(requests[t].path) # <<>>
        /\ BodyHasEdits(requests[t].body)
        /\ source = Absent) =>
         requests[t].status = 404

\* the step that ends a handler: only the answer ok comes with a write, and
\* 409 is the answer exactly when the write was refused
AnswerFitsWrite ==
  \A t \in Tasks :
    (requests[t].pc # "done" /\ requests'[t].pc = "done") =>
      /\ requests'[t].status = 200 <=>
           (head' = head + 1 /\ source' = requests[t].updated)
      /\ requests'[t].status # 200 => (head' = head /\ source' = source)
      /\ requests'[t].status = 409 <=>
           (requests[t].pc = "commit" /\ head # requests[t].latestCommitSha)

\* C28: the handler calls writeProjectFile only for a valid path, a JSON
\* body with a non-empty edits array and a page that exists; otherwise it
\* answers 400 or 404 and leaves the stored page as it is; it answers 409
\* when the write raises ConflictError and ok only after the write returned
C28_PutAnswers == []AnswersFit /\ [][AnswerFitsWrite]_vars
====
